---- MODULE Spec2Model ----
(***************************************************************************)
(* Model of amboss_scraper.py: the reveal chain run against a live page,   *)
(* the extraction of sections from a parsed page, the table and list       *)
(* formatters, the text cleaner and the three renderers.                   *)
(*                                                                         *)
(* A Python string is a sequence of atoms.  Text that comes from the page  *)
(* is a sequence of one-character strings; a markup literal the program    *)
(* writes itself ("<h3>", "<br/>") is one atom.                            *)
(***************************************************************************)
EXTENDS Integers, Sequences, FiniteSets, TLC

\* ------------------------------------------------------------------------
\* Strings
\* ------------------------------------------------------------------------

WS == {" ", "\n", "\t"}

Digits == {"0", "1", "2", "3", "4", "5", "6", "7", "8", "9"}

Letters ==
    [upper |-> <<"A", "B", "C", "D", "E", "F", "G", "H", "I", "J", "K", "L", "M", "N", "O", "P", "Q", "R", "S", "T", "U", "V", "W", "X", "Y", "Z">>, lower |-> <<"a", "b", "c", "d", "e", "f", "g", "h", "i", "j", "k", "l", "m", "n", "o", "p", "q", "r", "s", "t", "u", "v", "w", "x", "y", "z">>]

\* str.lower() of one character
LowerChar(c) ==
    IF \E i \in 1..Len(Letters.upper) : Letters.upper[i] = c
    THEN Letters.lower[CHOOSE i \in 1..Len(Letters.upper) : Letters.upper[i] = c]
    ELSE c

\* str.lower()
Lower(s) == [i \in 1..Len(s) |-> LowerChar(s[i])]

\* s.startswith(p)
StartsWith(s, p) == Len(s) >= Len(p) /\ SubSeq(s, 1, Len(p)) = p

\* s.endswith(p)
EndsWith(s, p) == Len(s) >= Len(p) /\ SubSeq(s, Len(s) - Len(p) + 1, Len(s)) = p

\* p in s
Contains(s, p) ==
    \E i \in 1..(Len(s) - Len(p) + 1) : SubSeq(s, i, i + Len(p) - 1) = p

\* s.replace(p, r), p not empty: leftmost non-overlapping occurrences
RECURSIVE Replace(_, _, _)
Replace(s, p, r) ==
    IF Len(s) < Len(p) THEN s
    ELSE IF SubSeq(s, 1, Len(p)) = p
         THEN r \o Replace(SubSeq(s, Len(p) + 1, Len(s)), p, r)
         ELSE <<s[1]>> \o Replace(Tail(s), p, r)

\* sep.join(parts)
RECURSIVE Join(_, _)
Join(parts, sep) ==
    IF parts = <<>> THEN <<>>
    ELSE IF Len(parts) = 1 THEN parts[1]
    ELSE parts[1] \o sep \o Join(Tail(parts), sep)

\* s.split(d) for a one-character delimiter d
RECURSIVE SplitFrom(_, _, _)
SplitFrom(s, d, cur) ==
    IF s = <<>> THEN <<cur>>
    ELSE IF s[1] = d THEN <<cur>> \o SplitFrom(Tail(s), d, <<>>)
    ELSE SplitFrom(Tail(s), d, Append(cur, s[1]))

Split(s, d) == SplitFrom(s, d, <<>>)

\* s.strip()
Strip(s) ==
    IF \A i \in 1..Len(s) : s[i] \in WS THEN <<>>
    ELSE LET first == CHOOSE i \in 1..Len(s) :
                          s[i] \notin WS /\ \A j \in 1..(i - 1) : s[j] \in WS
             last  == CHOOSE i \in 1..Len(s) :
                          s[i] \notin WS /\ \A j \in (i + 1)..Len(s) : s[j] \in WS
         IN  SubSeq(s, first, last)

\* ' '.join(s.split()): whitespace runs collapse to one space, ends trimmed
JoinSplit(s) ==
    LET keep(i) == \/ s[i] \notin WS
                   \/ /\ i > 1
                      /\ s[i - 1] \notin WS
                      /\ \E j \in (i + 1)..Len(s) : s[j] \notin WS
        idx  == SelectSeq([i \in 1..Len(s) |-> i], keep)
    IN  [k \in 1..Len(idx) |-> IF s[idx[k]] \in WS THEN " " ELSE s[idx[k]]]

\* the position where the digits that follow s[1] stop
DigitsEnd(s) ==
    CHOOSE j \in 2..(Len(s) + 1) :
        /\ \A i \in 2..(j - 1) : s[i] \in Digits
        /\ (j = Len(s) + 1 \/ s[j] \notin Digits)

\* s[1..stop] is "[", one or more digits, "]"
ClosesRef(s, stop) == stop > 2 /\ stop <= Len(s) /\ s[stop] = "]"

\* length of the match of \[\d+\] at the start of s, 0 when there is none
RefLenAt(s, stop) == IF ClosesRef(s, stop) THEN stop ELSE 0

RefLen(s) == IF Len(s) >= 3 /\ s[1] = "[" THEN RefLenAt(s, DigitsEnd(s)) ELSE 0

\* re.sub(r'\[\d+\](?:\[\d+\])*', '', s): drop every match, scanning from
\* the left; n is the length of the match at the start of s
RECURSIVE RemoveRefs(_)
RemoveRefsAt(s, n) ==
    IF n > 0 THEN RemoveRefs(SubSeq(s, n + 1, Len(s)))
    ELSE <<s[1]>> \o RemoveRefs(Tail(s))

RemoveRefs(s) == IF s = <<>> THEN <<>> ELSE RemoveRefsAt(s, RefLen(s))

unwanted_strings ==
    << <<"M", "a", "x", "i", "m", "i", "z", "e", " ", "t", "a", "b", "l", "e">>, <<"T", "a", "b", "l", "e", " ", "Q", "u", "i", "z">>, <<"C", "o", "l", "l", "a", "p", "s", "e">>, <<"N", "o", "t", "e", "s">>, <<"F", "e", "e", "d", "b", "a", "c", "k">> >>

RECURSIVE RemoveUnwanted(_, _)
RemoveUnwanted(s, k) ==
    IF k > Len(unwanted_strings) THEN s
    ELSE RemoveUnwanted(Replace(s, unwanted_strings[k], <<>>), k + 1)

\* AmbossScraper.clean_text
clean_text(text) ==
    IF text = <<>> THEN <<>>
    ELSE Strip(RemoveUnwanted(RemoveRefs(JoinSplit(text)), 1))

\* ------------------------------------------------------------------------
\* The parsed page (BeautifulSoup tree)
\* ------------------------------------------------------------------------

\* the value None where a string is expected
NoneStr == <<"#None">>

\* the value None where a node is expected
NoNode == [name |-> "#none"]

\* a NavigableString
Text(t) ==
    [name |-> "#text", classes |-> <<>>, testid |-> "", src |-> <<>>,
     title |-> <<>>, text |-> t, kids |-> <<>>]

\* a Tag: name, class list, data-e2e-test-id, children
El(name, classes, testid, kids) ==
    [name |-> name, classes |-> classes, testid |-> testid, src |-> <<>>,
     title |-> <<>>, text |-> <<>>, kids |-> kids]

\* an <img> with its src and title attributes
Img(src, title) ==
    [name |-> "img", classes |-> <<>>, testid |-> "", src |-> src,
     title |-> title, text |-> <<>>, kids |-> <<>>]

IsTag(n) == n.name \notin {"#text", "#none"}

\* tag.descendants: every node below n in document order
RECURSIVE Descendants(_)
RECURSIVE DescendantsOfAll(_)
DescendantsOfAll(ns) ==
    IF ns = <<>> THEN <<>>
    ELSE <<ns[1]>> \o Descendants(ns[1]) \o DescendantsOfAll(Tail(ns))

Descendants(n) == DescendantsOfAll(n.kids)

\* tag.get_text(): the strings below n, concatenated
RECURSIVE ConcatTexts(_)
ConcatTexts(ns) ==
    IF ns = <<>> THEN <<>>
    ELSE (IF ns[1].name = "#text" THEN ns[1].text ELSE <<>>) \o ConcatTexts(Tail(ns))

get_text(n) == IF n.name = "#text" THEN n.text ELSE ConcatTexts(Descendants(n))

First(ns) == IF ns = <<>> THEN NoNode ELSE ns[1]

HasName(n, names) == IsTag(n) /\ n.name \in names

\* 'c' in tag.get('class', [])
HasClass(n, c) == \E i \in 1..Len(n.classes) : n.classes[i] = c

\* class_=lambda x: x and 'part' in x
HasClassContaining(n, part) ==
    \E i \in 1..Len(n.classes) : Contains(n.classes[i], part)

\* tag.find_all(names) and tag.find_all(names, recursive=False)
find_all(n, names) == SelectSeq(Descendants(n), LAMBDA d : HasName(d, names))

find_all_direct(n, names) == SelectSeq(n.kids, LAMBDA d : HasName(d, names))

\* tag.find(name)
find(n, name) == First(find_all(n, {name}))

\* tag.find(name, {'data-e2e-test-id': id})
find_testid(n, name, id) ==
    First(SelectSeq(Descendants(n), LAMBDA d : HasName(d, {name}) /\ d.testid = id))

\* decimal digits of a positive integer
RECURSIVE Decimal(_)
Decimal(n) ==
    LET d == <<"0", "1", "2", "3", "4", "5", "6", "7", "8", "9">>[(n % 10) + 1]
    IN  IF n < 10 THEN <<d>> ELSE Decimal(n \div 10) \o <<d>>

\* class names the program looks for
cls ==
    [table_wrapper |-> <<"t", "a", "b", "l", "e", "-", "w", "r", "a", "p", "p", "e", "r">>, paragraph |-> <<"p", "a", "r", "a", "g", "r", "a", "p", "h">>,
     merke |-> <<"m", "e", "r", "k", "e">>, cave |-> <<"c", "a", "v", "e">>, content_box |-> <<"c", "o", "n", "t", "e", "n", "t", "-", "b", "o", "x">>,
     green |-> <<"g", "r", "e", "e", "n">>, red |-> <<"r", "e", "d">>, blue |-> <<"b", "l", "u", "e">>,
     thumbnail_image |-> <<"t", "h", "u", "m", "b", "n", "a", "i", "l", "_", "_", "i", "m", "a", "g", "e">>,
     thumbnail_image_title |-> <<"t", "h", "u", "m", "b", "n", "a", "i", "l", "_", "_", "i", "m", "a", "g", "e", "_", "_", "t", "i", "t", "l", "e">>]

\* the list [x] when the string or list x is truthy, else the empty list
OneIf(x) == IF x # <<>> THEN <<x>> ELSE <<>>

\* clean_text(tag.get_text())
cleaned(n) == clean_text(get_text(n))

\* ------------------------------------------------------------------------
\* Lists
\* ------------------------------------------------------------------------

\* the li_text_parts loop of process_list and process_list_item: the cleaned
\* text of every child of the item before its first directly nested ul
RECURSIVE li_text_parts(_)
li_text_parts(kids) ==
    IF kids = <<>> THEN <<>>
    ELSE IF kids[1].name = "ul" THEN <<>>
    ELSE OneIf(cleaned(kids[1])) \o li_text_parts(Tail(kids))

li_text(li) == Strip(Join(li_text_parts(li.kids), <<" ">>))

\* li.find('ul', recursive=False)
nested_ul(li) == First(find_all_direct(li, {"ul"}))

\* AmbossScraper.process_list: the list of output lines
RECURSIVE process_list(_)
nested_list_lines(ul) ==
    IF ul # NoNode
    THEN << <<"<ul>">> >> \o process_list(ul) \o << <<"</ul>">> >>
    ELSE <<>>

RECURSIVE process_list_items(_)
process_list_items(lis) ==
    IF lis = <<>> THEN <<>>
    ELSE << <<"<li>">> \o li_text(lis[1]) >>
         \o nested_list_lines(nested_ul(lis[1]))
         \o << <<"</li>">> >>
         \o process_list_items(Tail(lis))

process_list(ul_node) == process_list_items(find_all_direct(ul_node, {"li"}))

\* ------------------------------------------------------------------------
\* Tables
\* ------------------------------------------------------------------------

\* seq[1:-1]
Mid(seq) == SubSeq(seq, 2, Len(seq) - 1)

\* the glyphs U+2022 and U+25E6, and the indentation of nested bullets
bullets == [top |-> "(U+2022)", nested |-> "(U+25E6)", indent |-> "&nbsp;&nbsp;&nbsp;&nbsp;"]

\* "| " + " | ".join(cells) + " |"
row_markup(cells) == <<"|", " ">> \o Join(cells, <<" ", "|", " ">>) \o <<" ", "|">>

\* cell_text.replace('|', '\\|')
escape_pipes(s) == Replace(s, <<"|">>, <<"\\", "|">>)

\* the line process_list_item appends for an item with text
bullet_line(indent, bullet_char, text) ==
    IF text # <<>> THEN << indent \o <<bullet_char, " ">> \o text >> ELSE <<>>

\* the inner function process_list_item of format_table_with_bullets:
\* the lines it appends to bullet_content
RECURSIVE process_list_item(_, _, _)
RECURSIVE process_list_item_all(_)
process_list_item_all(lis) ==
    IF lis = <<>> THEN <<>>
    ELSE process_list_item(lis[1], bullets.nested, <<bullets.indent>>)
         \o process_list_item_all(Tail(lis))

nested_item_lines(ul) ==
    IF ul # NoNode THEN process_list_item_all(find_all_direct(ul, {"li"})) ELSE <<>>

process_list_item(li_element, bullet_char, indent) ==
    bullet_line(indent, bullet_char, li_text(li_element))
    \o nested_item_lines(nested_ul(li_element))

\* bullet_content of a cell: every item of every top-level list of the cell
RECURSIVE bullet_content_lis(_)
bullet_content_lis(lis) ==
    IF lis = <<>> THEN <<>>
    ELSE process_list_item(lis[1], bullets.top, <<>>) \o bullet_content_lis(Tail(lis))

RECURSIVE bullet_content(_)
bullet_content(uls) ==
    IF uls = <<>> THEN <<>>
    ELSE bullet_content_lis(find_all_direct(uls[1], {"li"})) \o bullet_content(Tail(uls))

\* the string format_table_with_bullets stores for one body cell whose
\* directly contained lists are top_level_lists
cell_text_for(td, top_level_lists) ==
    IF top_level_lists # <<>>
    THEN escape_pipes(Join(bullet_content(top_level_lists), <<"<br/>">>))
    ELSE escape_pipes(Replace(cleaned(td), <<"\n">>, <<" ">>))

cell_text(td) == cell_text_for(td, find_all_direct(td, {"ul"}))

\* the cells of one body row
cells_of(tds) == [i \in 1..Len(tds) |-> cell_text(tds[i])]

row_cells(tr) == cells_of(find_all(tr, {"td", "th"}))

\* header cell text: a blank one becomes a single space
header_text(text) == IF text # <<>> THEN text ELSE <<" ">>

headers_of(ths) == [i \in 1..Len(ths) |-> header_text(cleaned(ths[i]))]

\* thead.find('tr') when there is a thead
header_row(thead) == IF thead = NoNode THEN NoNode ELSE find(thead, "tr")

header_cells(tr) == IF tr = NoNode THEN <<>> ELSE find_all(tr, {"th", "td"})

\* the list `headers` of format_table_with_bullets
table_headers(table_element) ==
    headers_of(header_cells(header_row(find(table_element, "thead"))))

\* tbody.find_all('tr') when there is a tbody
body_trs(tbody) == IF tbody = NoNode THEN <<>> ELSE find_all(tbody, {"tr"})

\* the rows of the table body for which `if cells:` holds
table_body_trs(table_element) ==
    SelectSeq(body_trs(find(table_element, "tbody")),
              LAMBDA tr : find_all(tr, {"td", "th"}) # <<>>)

\* the header row and the separator row, when there are header cells
header_rows(headers) ==
    IF headers # <<>>
    THEN << row_markup(headers),
            row_markup([i \in 1..Len(headers) |-> <<"-", "-", "-">>]) >>
    ELSE <<>>

body_rows(trs) == [i \in 1..Len(trs) |-> row_markup(row_cells(trs[i]))]

\* the list `rows` of format_table_with_bullets
table_rows(table_element) ==
    header_rows(table_headers(table_element)) \o body_rows(table_body_trs(table_element))

\* the cells the returned markup puts in <th> elements
rendered_header(rows) == Mid(Split(rows[1], "|"))

\* the cells the returned markup puts in <td> elements, row by row
rendered_body(rows) ==
    [i \in 1..(IF Len(rows) > 2 THEN Len(rows) - 2 ELSE 0) |->
        Mid(Split(rows[i + 2], "|"))]

th_markup(ths) ==
    Join([i \in 1..Len(ths) |-> <<"<th>">> \o ths[i] \o <<"</th>">>], <<"\n">>)

td_markup(tds) ==
    Join([i \in 1..Len(tds) |-> <<"<td>">> \o tds[i] \o <<"</td>">>], <<"\n">>)

tr_markup(trs) ==
    Join([r \in 1..Len(trs) |-> <<"<tr>\n">> \o td_markup(trs[r]) \o <<"\n</tr>">>],
         <<"\n">>)

\* the return statement of format_table_with_bullets
table_markup(rows) ==
    IF rows = <<>> THEN <<>>
    ELSE <<"\n<table>\n<thead>\n<tr>\n">>
         \o th_markup(rendered_header(rows))
         \o <<"\n</tr>\n</thead>\n<tbody>\n">>
         \o tr_markup(rendered_body(rows))
         \o <<"\n</tbody>\n</table>\n">>

\* AmbossScraper.format_table_with_bullets
format_table_with_bullets(table_element) ==
    IF table_element = NoNode THEN <<>> ELSE table_markup(table_rows(table_element))

\* ------------------------------------------------------------------------
\* Blocks of a section
\* ------------------------------------------------------------------------

\* the URL fix-up of extract_image_info
absolute_url(image_url) ==
    IF StartsWith(image_url, <<"/", "/">>) THEN <<"h", "t", "t", "p", "s", ":">> \o image_url
    ELSE IF StartsWith(image_url, <<"/">>) THEN <<"h", "t", "t", "p", "s", ":", "/", "/", "n", "e", "x", "t", ".", "a", "m", "b", "o", "s", "s", ".", "c", "o", "m">> \o image_url
    ELSE image_url

\* img_span.find('span', class_='thumbnail__image__title')
title_span(img_span) ==
    First(SelectSeq(Descendants(img_span), LAMBDA d :
        HasName(d, {"span"}) /\ HasClass(d, cls.thumbnail_image_title)))

span_text(span) == IF span # NoNode THEN get_text(span) ELSE <<>>

\* the caption: title attribute, else the caption element's text, else the
\* placeholder
caption_or_default(title) == IF title # <<>> THEN title ELSE <<"M", "e", "d", "i", "c", "a", "l", " ", "I", "m", "a", "g", "e">>

image_caption(title_attr, img_span) ==
    caption_or_default(IF title_attr # <<>> THEN title_attr
                       ELSE span_text(title_span(img_span)))

image_markup(image_url, title) ==
    <<"<div style=\"text-align: center; margin: 20px 0;\"><img src=\"">>
    \o image_url \o <<"\" alt=\"">> \o title
    \o <<"\" width=\"400\" style=\"max-width: 100%; height: auto;\"><p><em>">>
    \o title \o <<"</em></p></div>">>

image_info(img_span, img_element) ==
    IF img_element = NoNode THEN <<>>
    ELSE IF img_element.src = <<>> THEN <<>>
    ELSE image_markup(absolute_url(img_element.src),
                      image_caption(img_element.title, img_span))

\* AmbossScraper.extract_image_info
extract_image_info(img_span) == image_info(img_span, find(img_span, "img"))

\* the paragraph extract_generic_content returns for a cleaned text
generic_paragraph(text_content) ==
    IF text_content # <<>> /\ Len(text_content) > 10 /\ Len(text_content) > 20
    THEN <<"<p>">> \o text_content \o <<"</p>">>
    ELSE <<>>

\* AmbossScraper.extract_generic_content
extract_generic_content(element) ==
    IF ~IsTag(element) THEN <<>>
    ELSE IF /\ element.name = "div"
            /\ \E c \in {cls.table_wrapper, cls.paragraph, cls.merke, cls.cave,
                         cls.content_box} : HasClass(element, c)
    THEN <<>>
    ELSE IF find_all_direct(element, {"ul", "table", "div"}) # <<>> THEN <<>>
    ELSE generic_paragraph(cleaned(element))

\* the three entries appended for an image that has a URL
image_block(img_content) ==
    IF img_content # <<>>
    THEN << <<"<div class=\"image-container\">">>, img_content, <<"</div>">> >>
    ELSE <<>>

RECURSIVE image_parts(_)
image_parts(images) ==
    IF images = <<>> THEN <<>>
    ELSE image_block(extract_image_info(images[1])) \o image_parts(Tail(images))

\* the entry appended for a text wrapped in a tag, when the text is not empty
wrapped(open, text, close) ==
    IF text # <<>> THEN << <<open>> \o text \o <<close>> >> ELSE <<>>

\* the label of a content box for the class list of `child`
box_open(child) ==
    IF HasClass(child, cls.merke) \/ HasClass(child, cls.green)
    THEN "<div class=\"content-box note\">(U+1F4A1) **Note:** "
    ELSE IF HasClass(child, cls.cave) \/ HasClass(child, cls.red)
    THEN "<div class=\"content-box warning\">(U+26A0) **Warning:** "
    ELSE IF HasClass(child, cls.blue)
    THEN "<div class=\"content-box tip\">(U+1F4DD) **Tip:** "
    ELSE "<div class=\"content-box note\">(U+1F4A1) **Note:** "

\* child.find_all('span', class_='thumbnail__image')
thumbnails(child) ==
    SelectSeq(Descendants(child), LAMBDA d :
        HasName(d, {"span"}) /\ HasClass(d, cls.thumbnail_image))

\* the entries for a paragraph container: its images, else its text
paragraph_parts(child, images) ==
    IF images # <<>> THEN image_parts(images)
    ELSE wrapped("<p>", cleaned(child), "</p>")

\* the entries for a list
list_block(list_content) ==
    IF list_content # <<>>
    THEN << <<"<ul>">> >> \o list_content \o << <<"</ul>">> >>
    ELSE <<>>

\* one iteration of the loop over base_content.children in
\* extract_content_from_section: the entries it appends to content_parts
child_parts(child) ==
    IF ~IsTag(child) THEN <<>>
    ELSE IF child.name = "h3" THEN wrapped("<h3>", cleaned(child), "</h3>")
    ELSE IF child.name = "div" /\ HasClass(child, cls.table_wrapper)
    THEN OneIf(format_table_with_bullets(find(child, "table")))
    ELSE IF child.name = "ul" THEN list_block(process_list(child))
    ELSE IF child.name = "div" /\ HasClass(child, cls.paragraph)
    THEN paragraph_parts(child, thumbnails(child))
    ELSE IF /\ child.name = "div"
            /\ \E c \in {cls.merke, cls.cave, cls.content_box} : HasClass(child, c)
    THEN wrapped(box_open(child), cleaned(child), "</div>")
    ELSE IF child.name = "p" THEN wrapped("<p>", cleaned(child), "</p>")
    ELSE OneIf(extract_generic_content(child))

\* faulty variant of content_parts: the entries of a child are put in front
\* of those of the children before it
RECURSIVE content_parts_prepending(_)
content_parts_prepending(children) ==
    IF children = <<>> THEN <<>>
    ELSE content_parts_prepending(Tail(children)) \o child_parts(children[1])

RECURSIVE content_parts(_)
content_parts(children) ==
    IF children = <<>> THEN <<>>
    ELSE child_parts(children[1]) \o content_parts(Tail(children))

\* the content-shown marker node, else the content-hidden marker node
first_container(shown, section) ==
    IF shown # NoNode THEN shown
    ELSE find_testid(section, "div", "section-content-is-hidden")

content_container(section) ==
    first_container(find_testid(section, "div", "section-content-is-shown"), section)

\* content_container.find('div', class_=lambda x: x and 'baseStyles' in x)
base_styles(container) ==
    First(SelectSeq(Descendants(container), LAMBDA d :
        HasName(d, {"div"}) /\ HasClassContaining(d, <<"b", "a", "s", "e", "S", "t", "y", "l", "e", "s">>)))

wrapper_or(container, wrapper) == IF wrapper # NoNode THEN wrapper ELSE container

\* the node whose children are dispatched: the baseStyles wrapper inside the
\* content container when there is one, else the container; None when the
\* section has no content container
base_of(container) ==
    IF container = NoNode THEN NoNode ELSE wrapper_or(container, base_styles(container))

base_content(section) == base_of(content_container(section))

joined_parts(base) ==
    IF base = NoNode THEN <<>> ELSE Join(content_parts(base.kids), <<"\n">>)

\* AmbossScraper.extract_content_from_section
extract_content_from_section(section) == joined_parts(base_content(section))

\* ------------------------------------------------------------------------
\* Sections and titles
\* ------------------------------------------------------------------------

cleaned_or_empty(node) == IF node = NoNode THEN <<>> ELSE cleaned(node)

\* AmbossScraper.extract_section_title_from_element; None is the empty string
extract_section_title_from_element(section) == cleaned_or_empty(find(section, "h3"))

\* class_=lambda x: x and any(keyword in x.lower() for keyword in keywords)
HasClassKeyword(n, keywords) ==
    \E i \in 1..Len(n.classes) : \E keyword \in keywords :
        Contains(Lower(n.classes[i]), keyword)

\* strategies 1 to 3 of extract_section_title: the cleaned text of the first
\* h3 of a container, None being the empty string
h3_title(container) ==
    IF container = NoNode THEN <<>> ELSE cleaned_or_empty(find(container, "h3"))

\* section.find('div', class_=lambda x: x and 'header' in x.lower())
header_container(section) ==
    First(SelectSeq(Descendants(section), LAMBDA d :
        HasName(d, {"div"}) /\ HasClassKeyword(d, {<<"h", "e", "a", "d", "e", "r">>})))

\* the first of the cleaned texts of the elements that is not empty and
\* whose length lies strictly between lo and hi, None being the empty string
RECURSIVE first_text_within(_, _, _)
first_text_within(elements, lo, hi) ==
    IF elements = <<>> THEN <<>>
    ELSE IF cleaned(elements[1]) # <<>> /\ lo < Len(cleaned(elements[1]))
            /\ Len(cleaned(elements[1])) < hi
    THEN cleaned(elements[1])
    ELSE first_text_within(Tail(elements), lo, hi)

\* strategy 4: the button and div elements with a header, title or button
\* class
button_elements(section) ==
    SelectSeq(find_all(section, {"button", "div"}), LAMBDA d :
        HasClassKeyword(d, {<<"h", "e", "a", "d", "e", "r">>, <<"t", "i", "t", "l", "e">>, <<"b", "u", "t", "t", "o", "n">>}))

\* elements[:n]
Take(elements, n) == SubSeq(elements, 1, IF Len(elements) < n THEN Len(elements) ELSE n)

\* strategy 5: those of the first ten div and span elements that have a
\* header or title class
header_like_elements(section) ==
    SelectSeq(Take(find_all(section, {"div", "span"}), 10), LAMBDA d :
        HasClassKeyword(d, {<<"h", "e", "a", "d", "e", "r">>, <<"t", "i", "t", "l", "e">>}))

\* the first of the candidates that is not None
RECURSIVE first_title(_)
first_title(candidates) ==
    IF candidates = <<>> THEN <<>>
    ELSE IF candidates[1] # <<>> THEN candidates[1]
    ELSE first_title(Tail(candidates))

\* AmbossScraper.extract_section_title; None is the empty string
extract_section_title(section) ==
    first_title(<< h3_title(find_testid(section, "div", "particle-header")),
                   h3_title(header_container(section)),
                   h3_title(section),
                   first_text_within(button_elements(section), 0, 100),
                   first_text_within(header_like_elements(section), 5, 100) >>)

\* the first try of extract_article_title_from_soup: the title tag's text
\* without the suffix " - AMBOSS"
strip_suffix(title_text) ==
    IF EndsWith(title_text, <<" ", "-", " ", "A", "M", "B", "O", "S", "S">>)
    THEN Strip(SubSeq(title_text, 1, Len(title_text) - 9))
    ELSE title_text

stripped_text(node) == IF node = NoNode THEN <<>> ELSE Strip(get_text(node))

page_title(soup) == strip_suffix(stripped_text(find(soup, "title")))

\* the second try: h1, else h2, else a title-classed element of the header
first_found(a, b, c) == IF a # NoNode THEN a ELSE IF b # NoNode THEN b ELSE c

title_classed(header) ==
    First(SelectSeq(Descendants(header), LAMBDA d :
        IsTag(d) /\ \E i \in 1..Len(d.classes) : Contains(Lower(d.classes[i]), <<"t", "i", "t", "l", "e">>)))

header_title_element(header) ==
    IF header = NoNode THEN NoNode
    ELSE first_found(find(header, "h1"), find(header, "h2"), title_classed(header))

article_header(soup) ==
    First(SelectSeq(Descendants(soup), LAMBDA d : IsTag(d) /\ d.testid = "articleHeader"))

\* the third try and the fallback
heading_or_default(heading_text) ==
    IF heading_text # <<>> THEN heading_text ELSE <<"M", "e", "d", "i", "c", "a", "l", " ", "C", "o", "n", "t", "e", "n", "t">>

pick_title(title_text, title_element, soup) ==
    IF title_text # <<>> THEN title_text
    ELSE IF title_element # NoNode THEN cleaned(title_element)
    ELSE heading_or_default(cleaned_or_empty(find(soup, "h1")))

\* AmbossScraper.extract_article_title_from_soup
extract_article_title_from_soup(soup) ==
    pick_title(page_title(soup), header_title_element(article_header(soup)), soup)

\* soup.find_all('section', {'data-e2e-test-id': 'section-with-header'})
section_elements(soup) ==
    SelectSeq(Descendants(soup), LAMBDA d :
        HasName(d, {"section"}) /\ d.testid = "section-with-header")

\* the title of section i: the extracted one, else the positional placeholder
resolved_title(title, i) == IF title # <<>> THEN title ELSE <<"S", "e", "c", "t", "i", "o", "n", " ">> \o Decimal(i)

\* faulty variant of is_references: the test without .lower()
is_references_case_sensitive(title) == Contains(title, <<"r", "e", "f", "e", "r", "e", "n", "c", "e", "s">>)

\* the References test of extract_sections
is_references(title) == Contains(Lower(title), <<"r", "e", "f", "e", "r", "e", "n", "c", "e", "s">>)

\* faulty variant of extracted_step: the section is appended without
\* `if content:`
extracted_step_unconditional(i, title, content) ==
    [index |-> i, title |-> title, called |-> TRUE, keep |-> TRUE,
     section_data |-> [title |-> title, content |-> content]]

\* the section_data of an iteration that called extract_content_from_section
\* and whether it is appended to `sections`
extracted_step(i, title, content) ==
    [index |-> i, title |-> title, called |-> TRUE, keep |-> content # <<>>,
     section_data |-> [title |-> title, content |-> content]]

skipped_step(i, title) ==
    [index |-> i, title |-> title, called |-> FALSE, keep |-> FALSE,
     section_data |-> [title |-> title]]

\* one iteration of the loop of extract_sections for a resolved title
titled_step(section, i, title) ==
    IF is_references(title) THEN skipped_step(i, title)
    ELSE extracted_step(i, title, extract_content_from_section(section))

\* one iteration of the loop of extract_sections over section i: the title it
\* resolves, whether it calls extract_content_from_section, and the
\* section_data it appends (keep) if any
section_step(section, i) ==
    titled_step(section, i, resolved_title(extract_section_title_from_element(section), i))

steps_of(elements) == [i \in 1..Len(elements) |-> section_step(elements[i], i)]

\* the loop of extract_sections, iteration by iteration
section_steps(soup) == steps_of(section_elements(soup))

\* the list `sections` after the loop
kept_sections(kept) == [i \in 1..Len(kept) |-> kept[i].section_data]

appended(section_loop) == kept_sections(SelectSeq(section_loop, LAMBDA st : st.keep))

\* AmbossScraper.extract_sections: (sections, article_title)
extract_sections(soup) ==
    [sections      |-> appended(section_steps(soup)),
     article_title |-> extract_article_title_from_soup(soup)]

\* ------------------------------------------------------------------------
\* Renderers
\* ------------------------------------------------------------------------

\* `if article_title:`
has_title(article_title) == article_title # NoneStr /\ article_title # <<>>

\* the leading "# {title}" line and blank line, when there is a title
title_lines(article_title) ==
    IF has_title(article_title) THEN << <<"#", " ">> \o article_title, <<>> >> ELSE <<>>

\* AmbossScraper._format_text
RECURSIVE text_lines(_, _)
text_lines(sections, i) ==
    IF i > Len(sections) THEN <<>>
    ELSE << <<"=", "=", "=", " ", "S", "e", "c", "t", "i", "o", "n", " ">> \o Decimal(i) \o <<":", " ">> \o sections[i].title \o <<" ", "=", "=", "=">>,
            sections[i].content,
            <<>> >>
         \o text_lines(sections, i + 1)

_format_text(sections, article_title) ==
    Join(title_lines(article_title) \o text_lines(sections, 1), <<"\n">>)

\* faulty variant of markdown_lines: the content is emitted without its
\* first character
RECURSIVE markdown_lines_clipped(_, _)
markdown_lines_clipped(sections, i) ==
    IF i > Len(sections) THEN <<>>
    ELSE << <<"#", "#", " ">> \o sections[i].title, <<>>, Tail(sections[i].content), <<>> >>
         \o markdown_lines_clipped(sections, i + 1)

\* AmbossScraper._format_markdown
RECURSIVE markdown_lines(_, _)
markdown_lines(sections, i) ==
    IF i > Len(sections) THEN <<>>
    ELSE << <<"#", "#", " ">> \o sections[i].title, <<>>, sections[i].content, <<>> >>
         \o markdown_lines(sections, i + 1)

_format_markdown(sections, article_title) ==
    Join(title_lines(article_title) \o markdown_lines(sections, 1), <<"\n">>)

\* AmbossScraper._format_html; the fixed lines of the head and of the style
\* block are one atom each
RECURSIVE html_section_parts(_, _)
html_section_parts(sections, i) ==
    IF i > Len(sections) THEN <<>>
    ELSE << <<"<div class=\"section\" id=\"section-">> \o Decimal(i) \o <<"\">">>,
            <<"<h2 class=\"section-title\">">> \o sections[i].title \o <<"</h2>">>,
            sections[i].content,
            <<"</div>">> >>
         \o html_section_parts(sections, i + 1)

html_title_banner(article_title) ==
    IF has_title(article_title)
    THEN << <<"<div class=\"main-title-container\" style=\"text-align: center; margin-bottom: 30px; border-bottom: 3px solid #007acc; padding-bottom: 15px;\">">>,
            <<"<h1 style=\"font-size: 28pt; color: #333; margin: 0;\">">>
                \o article_title \o <<"</h1>">>,
            <<"</div>">> >>
    ELSE <<>>

html_page_title(article_title) ==
    IF has_title(article_title) THEN article_title ELSE <<"A", "M", "B", "O", "S", "S", " ", "C", "o", "n", "t", "e", "n", "t">>

_format_html(sections, article_title) ==
    Join(<< <<"<!DOCTYPE html>\n<html lang=\"en\">\n<head>\n(meta)">>,
            <<"    <title>">> \o html_page_title(article_title) \o <<"</title>">>,
            <<"    <style>\n(print rules)\n(screen rules)\n</style>\n</head>\n<body>">> >>
         \o html_title_banner(article_title)
         \o html_section_parts(sections, 1)
         \o << <<"</body>">>, <<"</html>">> >>,
         <<"\n">>)

\* the formats format_output accepts
SupportedFormats == {"text", "markdown", "html"}

\* a section dictionary has the keys the renderers read
has_keys(section) == {"title", "content"} \subseteq DOMAIN section

\* the string format_output returns for a supported format
rendered(sections, fmt, title) ==
    CASE fmt = "text" -> _format_text(sections, title)
      [] fmt = "markdown" -> _format_markdown(sections, title)
      [] fmt = "html" -> _format_html(sections, title)

\* faulty variant of format_output: an unknown format falls back to text
format_output_text_fallback(sections, fmt, title) ==
    [exc |-> "None", sections |-> sections,
     value |-> IF fmt \in SupportedFormats THEN rendered(sections, fmt, title)
               ELSE _format_text(sections, title)]

\* faulty variant of format_output: rendering pops the sections off the list
format_output_consuming(sections, fmt, title) ==
    IF fmt \notin SupportedFormats
    THEN [exc |-> "ValueError", value |-> NoneStr, sections |-> sections]
    ELSE [exc |-> "None", value |-> rendered(sections, fmt, title), sections |-> <<>>]

\* AmbossScraper.format_output: the exception it raises ("None" when it
\* returns), the string it returns, and the list `sections` as the call
\* leaves it
format_output(sections, fmt, title) ==
    IF fmt \notin SupportedFormats
    THEN [exc |-> "ValueError", value |-> NoneStr, sections |-> sections]
    ELSE IF \E i \in 1..Len(sections) : ~has_keys(sections[i])
    THEN [exc |-> "KeyError", value |-> NoneStr, sections |-> sections]
    ELSE [exc |-> "None", value |-> rendered(sections, fmt, title), sections |-> sections]

\* ------------------------------------------------------------------------
\* State
\* ------------------------------------------------------------------------

VARIABLES
    pc,             \* position of the running call
    entry,          \* entry point called: "scrape_url" or "scrape_url_batch"
    url_kind,       \* "web" for an http(s) URL, "local" for a file path
    credentials,    \* self.username and self.password are both set
    driver,         \* self.driver: "None" or "live"
    page,           \* the header elements of the live page
    k,              \* index of the running loop of a reveal method
    buttons,        \* aria-expanded values found by _try_aria_expanded_buttons
    clicked_any,    \* clicked_any of the running reveal method
    clicks,         \* clicks the running reveal method has performed
    element_outcomes, \* what each element the latest selector looked up did
    chain,          \* start and return events of the reveal methods
    expand_result,  \* return value of expand_content
    soup,           \* the parsed page handed to extract_sections
    output_format,  \* the format handed to format_output
    sections,       \* sections returned by extract_sections
    article_title,  \* article title returned by extract_sections
    steps,          \* the iterations of the loop of extract_sections
    output,         \* outcome of the latest format_output call
    prev_output,    \* outcome of the format_output call before it
    render_calls,   \* number of format_output calls
    result,         \* (content, article_title) returned by the scrape call
    table_element,  \* the table handed to format_table_with_bullets
    table_content,  \* its return value
    ul_element,     \* the list handed to process_list
    list_content,   \* its return value
    urls,           \* the URLs main read from the URL file
    session,        \* how setting up the batch session ended
    results,        \* the dictionary `results` of scrape_multiple_urls
    successful,     \* the counter `successful` of scrape_multiple_urls
    failed,         \* the counter `failed` of scrape_multiple_urls
    summary,        \* what main wrote to the summary file
    raised,         \* the exception that ended the try block of main
    cleanup_ran,    \* scraper.cleanup() has run
    calls,          \* the pipeline invocations in progress
    frames,         \* the local list `sections` of every invocation
    page_view,      \* what _check_content_visibility finds on the page
    visible,        \* its return value
    raw_text,       \* the text handed to clean_text
    cleaned_text    \* its return value

revealVars == <<page, k, buttons, clicked_any, clicks, element_outcomes, chain,
               expand_result>>

callVars == <<entry, url_kind, credentials, driver, result>>

extractVars == <<soup, sections, article_title, steps>>

renderVars == <<output_format, output, prev_output, render_calls>>

tableVars == <<table_element, table_content>>

listVars == <<ul_element, list_content>>

mainVars == <<urls, session, results, successful, failed, summary, raised, cleanup_ran>>

pipeVars == <<calls, frames>>

helperVars == <<page_view, visible, raw_text, cleaned_text>>

vars == <<pc, revealVars, callVars, extractVars, renderVars, tableVars, listVars,
          mainVars, pipeVars, helperVars>>

\* values of variables a specification does not use
NoOutput == [exc |-> "None", value |-> NoneStr, fmt |-> "none"]

NoResult == [content |-> NoneStr, article_title |-> NoneStr]

IdleReveal ==
    /\ page = {} /\ k = 0 /\ buttons = <<>> /\ clicked_any = FALSE
    /\ clicks = <<>> /\ element_outcomes = <<>> /\ chain = <<>>
    /\ expand_result = "unset"

IdleCall ==
    /\ entry = "none" /\ url_kind = "none" /\ credentials = FALSE
    /\ driver = "None" /\ result = NoResult

IdleExtract ==
    /\ soup = NoNode /\ sections = <<>> /\ article_title = NoneStr /\ steps = <<>>

IdleRender ==
    /\ output_format = "none" /\ output = NoOutput /\ prev_output = NoOutput
    /\ render_calls = 0

IdleTable == table_element = NoNode /\ table_content = <<>>

IdleList == ul_element = NoNode /\ list_content = <<>>

NoSummary == [written |-> FALSE, total |-> 0, successful |-> 0, failed |-> 0, lines |-> <<>>]

IdleMain ==
    /\ urls = <<>> /\ session = "unset" /\ results = <<>> /\ successful = 0
    /\ failed = 0 /\ summary = NoSummary /\ raised = "None" /\ cleanup_ran = FALSE

IdlePipe == calls = <<>> /\ frames = <<>>

IdleHelper ==
    /\ page_view = <<>> /\ visible = "unset"
    /\ raw_text = NoneStr /\ cleaned_text = NoneStr

\* ------------------------------------------------------------------------
\* Pages handed to the extractor
\* ------------------------------------------------------------------------

E(name, kids) == El(name, <<>>, "", kids)

P(t) == E("p", <<Text(t)>>)

H3(t) == E("h3", <<Text(t)>>)

Li(kids) == E("li", kids)

Ul(items) == E("ul", items)

\* the header region of a section, with its h3
Header(t) == <<El("div", <<>>, "particle-header", <<H3(t)>>)>>

Shown(kids) == <<El("div", <<>>, "section-content-is-shown", kids)>>

Hidden(kids) == <<El("div", <<>>, "section-content-is-hidden", kids)>>

Wrapped(kids) == <<El("div", << <<"c", "s", "s", "-", "b", "a", "s", "e", "S", "t", "y", "l", "e", "s", "-", "x", "1">> >>, "", kids)>>

SectionNode(header, container) ==
    El("section", <<>>, "section-with-header", header \o container)

PageNode(head, section_nodes) == E("[document]", head \o <<E("article", section_nodes)>>)

TitleTag(t) == <<E("title", <<Text(t)>>)>>

txt_clinical == <<"C", "l", "i", "n", "i", "c", "a", "l", " ", "F", "e", "a", "t", "u", "r", "e", "s">>

txt_paragraph == <<"W", "h", "e", "e", "z", "i", "n", "g", " ", "a", "n", "d", " ", "d", "y", "s", "p", "n", "e", "a", " ", "[", "1", "]">>

\* a References section and a Clinical Features section holding one paragraph
SecReferences == SectionNode(Header(<<"R", "e", "f", "e", "r", "e", "n", "c", "e", "s">>), Shown(<<P(<<"S", "m", "i", "t", "h", " ", "2", "0", "2", "0">>)>>))

SecClinical == SectionNode(Header(txt_clinical), Shown(<<P(txt_paragraph)>>))

\* a section whose title holds the word in another case, among other words
SecKeyReferences ==
    SectionNode(Header(<<"K", "e", "y", " ", "R", "E", "F", "E", "R", "E", "N", "C", "E", "S", " ", "[", "2", "]">>), Shown(<<P(<<"S", "m", "i", "t", "h", " ", "2", "0", "2", "0">>)>>))

\* a section whose title reads References only once clean_text has removed
\* the citation inside it
SecCitedReferences ==
    SectionNode(Header(<<"R", "e", "f", "e", "r", "[", "3", "]", "e", "n", "c", "e", "s">>), Shown(<<P(<<"S", "m", "i", "t", "h", " ", "2", "0", "2", "0">>)>>))

\* a section whose title comes close to the word; its content is hidden and
\* sits in a baseStyles wrapper
SecReference ==
    SectionNode(Header(<<"R", "e", "f", "e", "r", "e", "n", "c", "e">>),
                Hidden(Wrapped(<<H3(<<"O", "v", "e", "r", "v", "i", "e", "w">>), P(<<"R", "a", "n", "g", "e", "s">>)>>)))

\* a section with a blank title holding a nested list
SecUntitled ==
    SectionNode(Header(<<" ">>),
                Shown(<<Ul(<<Li(<<Text(<<"a">>)>>),
                             Li(<<Text(<<"b">>), Ul(<<Li(<<Text(<<"c">>)>>)>>)>>)>>)>>))

\* a section without header region whose first h3 is a heading of its content
SecContentHeading ==
    SectionNode(<<>>, Shown(<<H3(<<"R", "e", "f", "e", "r", "e", "n", "c", "e", "s">>), P(<<"S", "m", "i", "t", "h", " ", "2", "0", "2", "0">>)>>))

\* a section without content container
SecNoContainer == SectionNode(Header(txt_clinical), <<>>)

\* a section whose content container is empty
SecEmptyContainer == SectionNode(Header(<<"D", "i", "a", "g", "n", "o", "s", "i", "s">>), Shown(<<>>))

\* a section whose children all yield nothing: white space, an empty
\* paragraph, a short span and a paragraph container whose image has no src
SecNothingYielded ==
    SectionNode(Header(<<"T", "h", "e", "r", "a", "p", "y">>),
                Shown(<<Text(<<" ">>), P(<<" ">>), E("span", <<Text(<<"s", "h", "o", "r", "t">>)>>),
                        El("div", <<cls.paragraph>>, "",
                           <<El("span", <<cls.thumbnail_image>>, "",
                                <<Img(<<>>, <<>>)>>)>>)>>))

\* the page of the scenario: a References section, then a Clinical Features
\* section holding one paragraph
ScenarioPage == PageNode(TitleTag(<<"A", "s", "t", "h", "m", "a", " ", "-", " ", "A", "M", "B", "O", "S", "S">>), <<SecReferences, SecClinical>>)

\* a page without any section node
EmptyPage == PageNode(<<>>, <<>>)

\* a page whose only section is a references section
ReferencesOnlyPage == PageNode(<<>>, <<SecKeyReferences>>)

\* a page whose only section has no content container
NoContainerPage == PageNode(<<>>, <<SecNoContainer>>)

\* ------------------------------------------------------------------------
\* The reveal chain against the live page
\* ------------------------------------------------------------------------

\* number of entries of toggle_selectors and of header_selectors
NumToggleSelectors == 5

NumHeaderSelectors == 5

\* minimum length of a section's text for it to count as visible
VisibilityThreshold == 50

\* largest number of aria-expanded buttons the page returns
MaxButtons == 2

Methods == {"global", "aria", "headers"}

\* a text of n characters without whitespace
Filler(n) == [i \in 1..n |-> "x"]

\* stands for a section node whose text cannot be read
Unreadable == <<"#raises">>

\* what _check_content_visibility finds on the page: whether querying raises,
\* the number of content-shown markers, and the text of each section node
View(query_error, shown_markers, section_texts) ==
    [query_error |-> query_error, shown_markers |-> shown_markers,
     section_texts |-> section_texts]

Views ==
    { View(TRUE, 0, <<>>), View(FALSE, 1, <<>>), View(FALSE, 0, <<>>),
      View(FALSE, 0, <<Filler(VisibilityThreshold + 1)>>),
      View(FALSE, 0, <<Unreadable, Filler(VisibilityThreshold)>>) }

\* faulty variant of _check_content_visibility: the text is not stripped
_check_content_visibility_unstripped(view) ==
    IF view.query_error THEN FALSE
    ELSE IF view.shown_markers > 0 THEN TRUE
    ELSE \E i \in 1..Len(view.section_texts) :
            /\ view.section_texts[i] # Unreadable
            /\ Len(view.section_texts[i]) > VisibilityThreshold

\* AmbossScraper._check_content_visibility
_check_content_visibility(view) ==
    IF view.query_error THEN FALSE
    ELSE IF view.shown_markers > 0 THEN TRUE
    ELSE \E i \in 1..Len(view.section_texts) :
            /\ view.section_texts[i] # Unreadable
            /\ Len(Strip(view.section_texts[i])) > VisibilityThreshold

\* what the page does during one iteration of the selector loop of
\* _try_global_toggle_button
GlobalOutcome(wait, click1, view1, click2, view2) ==
    [wait |-> wait, click1 |-> click1, view1 |-> view1, click2 |-> click2,
     view2 |-> view2]

AnyView == View(FALSE, 0, <<>>)

GlobalOutcomes ==
    { GlobalOutcome(w, "ok", AnyView, "ok", AnyView) :
        w \in {"TimeoutException", "NoSuchElementException", "WebDriverException"} }
    \cup { GlobalOutcome("clickable", "raise", AnyView, "ok", AnyView) }
    \cup { GlobalOutcome("clickable", "ok", v, "raise", AnyView) : v \in Views }
    \cup { GlobalOutcome("clickable", "ok", v[1], "ok", v[2]) : v \in Views \X Views }

\* faulty variant of global_attempt: a timeout of the wait ends the method
global_attempt_timeout_ends(o) ==
    IF o.wait = "NoSuchElementException" THEN [status |-> "continue", clicks |-> 0]
    ELSE IF o.wait # "clickable" THEN [status |-> "raise", clicks |-> 0]
    ELSE IF o.click1 # "ok" THEN [status |-> "raise", clicks |-> 0]
    ELSE IF _check_content_visibility(o.view1) THEN [status |-> "return True", clicks |-> 1]
    ELSE IF o.click2 # "ok" THEN [status |-> "raise", clicks |-> 1]
    ELSE IF _check_content_visibility(o.view2) THEN [status |-> "return True", clicks |-> 2]
    ELSE [status |-> "continue", clicks |-> 2]

\* one iteration of the selector loop of _try_global_toggle_button: how it
\* ends and how many clicks it performed
global_attempt(o) ==
    IF o.wait \in {"TimeoutException", "NoSuchElementException"}
    THEN [status |-> "continue", clicks |-> 0]
    ELSE IF o.wait # "clickable" THEN [status |-> "raise", clicks |-> 0]
    ELSE IF o.click1 # "ok" THEN [status |-> "raise", clicks |-> 0]
    ELSE IF _check_content_visibility(o.view1) THEN [status |-> "return True", clicks |-> 1]
    ELSE IF o.click2 # "ok" THEN [status |-> "raise", clicks |-> 1]
    ELSE IF _check_content_visibility(o.view2) THEN [status |-> "return True", clicks |-> 2]
    ELSE [status |-> "continue", clicks |-> 2]

\* the ways one iteration of that loop can go: what the wait met and how the
\* iteration ends
GlobalAttempts ==
    { [wait |-> o.wait, attempt |-> global_attempt(o)] : o \in GlobalOutcomes }

AriaValues == {"true", "false", "other"}

RECURSIVE SeqsUpTo(_, _)
SeqsUpTo(S, n) ==
    IF n = 0 THEN {<<>>}
    ELSE SeqsUpTo(S, n - 1)
         \cup {Append(s, x) : s \in {t \in SeqsUpTo(S, n - 1) : Len(t) = n - 1}, x \in S}

AriaOutcomes == {"ok", "attr_raises", "click1_raises", "click2_raises"}

\* one iteration of the button loop of _try_aria_expanded_buttons: the number
\* of clicks performed and whether clicked_any was set
aria_attempt(aria_expanded, o) ==
    IF o = "attr_raises" THEN [clicks |-> 0, clicked |-> FALSE]
    ELSE IF aria_expanded = "false"
    THEN IF o = "click1_raises" THEN [clicks |-> 0, clicked |-> FALSE]
         ELSE [clicks |-> 1, clicked |-> TRUE]
    ELSE IF aria_expanded = "true"
    THEN IF o = "click1_raises" THEN [clicks |-> 0, clicked |-> FALSE]
         ELSE IF o = "click2_raises" THEN [clicks |-> 1, clicked |-> FALSE]
         ELSE [clicks |-> 2, clicked |-> TRUE]
    ELSE [clicks |-> 0, clicked |-> FALSE]

\* elements inside section headers, in document order, with the entries of
\* header_selectors each one matches: a div with role="button", a button whose
\* class contains "header", and a plain button
HeaderPool ==
    { [ord |-> 1, matches |-> {1}], [ord |-> 2, matches |-> {2, 5}],
      [ord |-> 3, matches |-> {2}] }

\* driver.find_elements for header selector s: positions of the matches
header_matches(s) == {e.ord : e \in {h \in page : s \in h.matches}}

HeaderOutcomes == {"clicked", "not_displayed", "is_displayed_raises", "click_raises"}

\* faulty variant of clicked_in_order: the first element that raises ends
\* the iteration over the elements of the selector
RECURSIVE clicked_until_failure(_, _)
clicked_until_failure(f, n) ==
    IF n = 0 THEN <<>>
    ELSE clicked_until_failure(f, n - 1)
         \o (IF /\ n \in DOMAIN f /\ f[n] = "clicked"
                /\ \A e \in DOMAIN f :
                      e < n => f[e] \notin {"is_displayed_raises", "click_raises"}
             THEN <<n>> ELSE <<>>)

\* the elements one selector iteration of _try_section_headers clicked, in
\* document order, given what each matched element did
RECURSIVE clicked_in_order(_, _)
clicked_in_order(f, n) ==
    IF n = 0 THEN <<>>
    ELSE clicked_in_order(f, n - 1)
         \o (IF n \in DOMAIN f /\ f[n] = "clicked" THEN <<n>> ELSE <<>>)

\* faulty variant of try_all_next: the chain goes on after a success
try_all_next_no_short_circuit(method, success) ==
    CASE method = "global" -> "aria"
      [] method = "aria" -> "headers"
      [] method = "headers" -> IF success THEN "True" ELSE "False"

\* AmbossScraper._try_all_toggle_methods: after `method` returned `success`,
\* the method it calls next or the value it returns
try_all_next(method, success) ==
    IF success THEN "True"
    ELSE CASE method = "global" -> "aria"
           [] method = "aria" -> "headers"
           [] method = "headers" -> "False"

\* AmbossScraper.expand_content: its return value for what
\* _try_all_toggle_methods returned or raised
expand_return(outcome) ==
    IF outcome = "True" THEN "True" ELSE "False"

\* faulty variant of after_expand: the caller gives up when nothing was
\* expanded
after_expand_only_on_success(returned) ==
    IF returned = "True" THEN "source" ELSE "returned"

\* scrape_url and scrape_url_batch after expand_content returned: the
\* return value is not looked at and the page source is read
after_expand(returned) == "source"

\* ------------------------------------------------------------------------
\* scrape_url, scrape_url_batch and scrape_local_file
\* ------------------------------------------------------------------------

\* the messages the scrape calls return instead of content; "(url)",
\* "(filepath)" and "(exception)" stand for the interpolated values
msg ==
    [setup_failed    |-> <<"E", "r", "r", "o", "r">> \o <<": Could not setup WebDriver">>,
     login_failed    |-> <<"E", "r", "r", "o", "r">> \o <<": Login failed">>,
     no_session      |-> <<"E", "r", "r", "o", "r">> \o <<": Browser session not available">>,
     error_scraping  |-> <<"E", "r", "r", "o", "r">> \o <<" scraping ", "(url)", ": ", "(exception)">>,
     no_content      |-> <<"No content found">>,
     no_content_local |-> <<"No content found in local file">>,
     file_not_found  |-> <<"Local file not found: ", "(filepath)">>,
     error_reading   |-> <<"E", "r", "r", "o", "r">> \o <<" reading local file ", "(filepath)", ": ",
                                       "(exception)">>]

\* pages the driver or a local file can deliver, and formats a caller passes
ScrapePages == {EmptyPage, ReferencesOnlyPage, NoContainerPage, ScenarioPage}

ScrapeFormats == {"text", "html", "pdf"}

\* the value returned after rendering: the rendered string and the title, or
\* the error message when the renderer raised
render_result(f, title, error_message) ==
    IF f.exc = "None" THEN [content |-> f.value, article_title |-> title]
    ELSE [content |-> error_message, article_title |-> NoneStr]

rendered_outcome(ex, f, error_message) ==
    [result |-> render_result(f, ex.article_title, error_message), rendered |-> 1,
     output |-> f, sections |-> f.sections, article_title |-> ex.article_title]

\* faulty variant of format_or_no_content: the renderer is called without
\* `if not sections:`
format_unconditionally(ex, fmt, no_content, error_message) ==
    rendered_outcome(ex, format_output(ex.sections, fmt, ex.article_title), error_message)

\* `if not sections: return <no content>, None`, else format_output
format_or_no_content(ex, fmt, no_content, error_message) ==
    IF ex.sections = <<>>
    THEN [result |-> [content |-> no_content, article_title |-> NoneStr], rendered |-> 0,
          output |-> [exc |-> "None", value |-> NoneStr, sections |-> <<>>],
          sections |-> ex.sections, article_title |-> ex.article_title]
    ELSE rendered_outcome(ex, format_output(ex.sections, fmt, ex.article_title),
                          error_message)

\* the common tail of scrape_url, scrape_url_batch and scrape_local_file:
\* extract the sections, return the no-content message when there are none,
\* else render; an exception of the renderer becomes the error message
extract_and_format(page_soup, fmt, no_content, error_message) ==
    format_or_no_content(extract_sections(page_soup), fmt, no_content, error_message)

\* the call returns `r` before any page was parsed
ReturnEarly(r) ==
    /\ result' = r
    /\ pc' = "returned"
    /\ UNCHANGED <<entry, url_kind, credentials, revealVars, extractVars, renderVars,
                   tableVars, listVars,
                   mainVars, pipeVars, helperVars>>

\* the call parses `page_soup` and returns what extract_and_format gives
ReturnExtracted(page_soup, fmt, no_content, error_message) ==
    \E done \in {extract_and_format(page_soup, fmt, no_content, error_message)} :
        /\ soup' = page_soup
        /\ output_format' = fmt
        /\ steps' = section_steps(page_soup)
        /\ sections' = done.sections
        /\ article_title' = done.article_title
        /\ prev_output' = output
        /\ output' = [exc |-> done.output.exc, value |-> done.output.value,
                       fmt |-> IF done.rendered = 1 THEN fmt ELSE "none"]
        /\ render_calls' = render_calls + done.rendered
        /\ result' = done.result
        /\ pc' = "returned"
        /\ UNCHANGED <<entry, url_kind, credentials, driver, revealVars, tableVars, listVars,
                       mainVars, pipeVars, helperVars>>

\* scrape_url for a web URL, up to the call of expand_content
StartScrapeUrl ==
    /\ pc = "start" /\ entry = "scrape_url" /\ url_kind = "web"
    /\ \E setup_ok \in BOOLEAN, login_ok \in BOOLEAN,
          load \in {"ok", "TimeoutException", "WebDriverException"} :
          IF driver = "None" /\ ~setup_ok
          THEN driver' = "None" /\ ReturnEarly([content |-> msg.setup_failed,
                                               article_title |-> NoneStr])
          ELSE /\ driver' = "live"
               /\ IF credentials /\ ~login_ok
                  THEN ReturnEarly([content |-> msg.login_failed, article_title |-> NoneStr])
                  ELSE IF load # "ok"
                  THEN ReturnEarly([content |-> msg.error_scraping, article_title |-> NoneStr])
                  ELSE /\ pc' = "expand"
                       /\ UNCHANGED <<entry, url_kind, credentials, result, revealVars,
                                      extractVars, renderVars, tableVars, listVars,
                                      mainVars, pipeVars, helperVars>>

\* scrape_url_batch for a web URL, up to the call of expand_content
StartScrapeUrlBatch ==
    /\ pc = "start" /\ entry = "scrape_url_batch" /\ url_kind = "web"
    /\ UNCHANGED driver
    /\ \E load \in {"ok", "TimeoutException", "WebDriverException"} :
          IF driver = "None"
          THEN ReturnEarly([content |-> msg.no_session, article_title |-> NoneStr])
          ELSE IF load # "ok"
          THEN ReturnEarly([content |-> msg.error_scraping, article_title |-> NoneStr])
          ELSE /\ pc' = "expand"
               /\ UNCHANGED <<entry, url_kind, credentials, result, revealVars,
                              extractVars, renderVars, tableVars, listVars,
                              mainVars, pipeVars, helperVars>>

\* scrape_local_file, called by both entry points for a path that is no URL
ScrapeLocalFile ==
    /\ pc = "start" /\ url_kind = "local"
    /\ \/ /\ UNCHANGED driver
          /\ \E failure \in {msg.file_not_found, msg.error_reading} :
                ReturnEarly([content |-> failure, article_title |-> NoneStr])
       \/ \E page_soup \in ScrapePages, fmt \in ScrapeFormats :
             ReturnExtracted(page_soup, fmt, msg.no_content_local, msg.error_reading)

\* expand_content calls _try_all_toggle_methods, which starts method 1
ExpandContent ==
    /\ pc = "expand"
    /\ pc' = "global"
    /\ k' = 1
    /\ clicks' = <<>>
    /\ element_outcomes' = <<>>
    /\ clicked_any' = FALSE
    /\ chain' = <<[ev |-> "start", method |-> "global", result |-> FALSE,
                 raised |-> FALSE]>>
    /\ UNCHANGED <<page, buttons, expand_result, callVars, extractVars, renderVars,
                   tableVars, listVars,
                   mainVars, pipeVars, helperVars>>

\* a reveal method returns `ret` to _try_all_toggle_methods, from a return
\* statement of its body or from its `except Exception` clause
MethodReturn(method, ret, by_except) ==
    /\ chain' = Append(chain, [ev |-> "return", method |-> method, result |-> ret,
                               raised |-> by_except])
    /\ pc' = "try_all"
    /\ k' = 0

\* _try_global_toggle_button: one iteration of the loop over toggle_selectors;
\* an exception other than timeout or no-such-element ends the method with
\* False
TryGlobalToggleButton ==
    /\ pc = "global"
    /\ \E o \in GlobalAttempts :
          LET a == o.attempt
          IN  /\ clicks' = clicks \o [i \in 1..a.clicks |-> k]
              /\ element_outcomes' = <<o.wait>>
              /\ IF a.status = "return True" THEN MethodReturn("global", TRUE, FALSE)
                 ELSE IF a.status = "raise" THEN MethodReturn("global", FALSE, TRUE)
                 ELSE IF k < NumToggleSelectors
                 THEN pc' = pc /\ k' = k + 1 /\ chain' = chain
                 ELSE MethodReturn("global", FALSE, FALSE)
    /\ UNCHANGED <<page, buttons, clicked_any, expand_result, callVars, extractVars,
                   renderVars, tableVars, listVars,
                   mainVars, pipeVars, helperVars>>

\* _try_aria_expanded_buttons up to the loop: find the buttons
FindAriaButtons ==
    /\ pc = "aria" /\ k = 0
    /\ \/ /\ MethodReturn("aria", FALSE, TRUE)
          /\ UNCHANGED buttons
       \/ \E found \in SeqsUpTo(AriaValues, MaxButtons) :
             /\ buttons' = found
             /\ IF found = <<>> THEN MethodReturn("aria", FALSE, FALSE)
                ELSE pc' = pc /\ k' = 1 /\ chain' = chain
    /\ UNCHANGED <<page, clicked_any, clicks, element_outcomes, expand_result,
                   callVars, extractVars,
                   renderVars, tableVars, listVars,
                   mainVars, pipeVars, helperVars>>

\* _try_aria_expanded_buttons: one iteration of the loop over the buttons
TryAriaExpandedButtons ==
    /\ pc = "aria" /\ k \in 1..Len(buttons)
    /\ \E o \in AriaOutcomes :
          LET a == aria_attempt(buttons[k], o)
          IN  /\ clicks' = clicks \o [i \in 1..a.clicks |-> k]
              /\ clicked_any' = (clicked_any \/ a.clicked)
              /\ IF k < Len(buttons) THEN pc' = pc /\ k' = k + 1 /\ chain' = chain
                 ELSE MethodReturn("aria", clicked_any', FALSE)
    /\ UNCHANGED <<page, buttons, element_outcomes, expand_result, callVars, extractVars, renderVars,
                   tableVars, listVars,
                   mainVars, pipeVars, helperVars>>

\* _try_section_headers: one iteration of the loop over header_selectors
TrySectionHeaders ==
    /\ pc = "headers"
    /\ \/ /\ element_outcomes' = <<>>
          /\ UNCHANGED <<clicks, clicked_any>>
          /\ IF k < NumHeaderSelectors THEN pc' = pc /\ k' = k + 1 /\ chain' = chain
             ELSE MethodReturn("headers", clicked_any, FALSE)
       \/ \E f \in [header_matches(k) -> HeaderOutcomes] :
             /\ element_outcomes' = f
             /\ clicks' = clicks \o clicked_in_order(f, Cardinality(HeaderPool))
             /\ clicked_any' = (clicked_any \/ \E e \in DOMAIN f : f[e] = "clicked")
             /\ IF k < NumHeaderSelectors THEN pc' = pc /\ k' = k + 1 /\ chain' = chain
                ELSE MethodReturn("headers", clicked_any', FALSE)
    /\ UNCHANGED <<page, buttons, expand_result, callVars, extractVars, renderVars,
                   tableVars, listVars,
                   mainVars, pipeVars, helperVars>>

\* _try_all_toggle_methods after a method returned: start the next method or
\* return to expand_content, which returns to its caller
TryAllToggleMethods ==
    /\ pc = "try_all"
    /\ LET last == chain[Len(chain)]
           next == try_all_next(last.method, last.result)
       IN  IF next \in Methods
           THEN /\ pc' = next
                /\ k' = IF next = "aria" THEN 0 ELSE 1
                /\ chain' = Append(chain, [ev |-> "start", method |-> next, result |-> FALSE,
                                          raised |-> FALSE])
                /\ clicks' = <<>>
                /\ element_outcomes' = <<>>
                /\ clicked_any' = FALSE
                /\ UNCHANGED expand_result
           ELSE /\ pc' = "expanded"
                /\ expand_result' = expand_return(next)
                /\ UNCHANGED <<k, chain, clicks, element_outcomes, clicked_any>>
    /\ UNCHANGED <<page, buttons, callVars, extractVars, renderVars, tableVars, listVars,
                   mainVars, pipeVars, helperVars>>

\* expand_content has returned and its caller continues; the locals of the
\* reveal methods are gone
ExpandReturns ==
    /\ pc = "expanded"
    /\ pc' = after_expand(expand_result)
    /\ k' = 0 /\ buttons' = <<>> /\ clicked_any' = FALSE /\ clicks' = <<>> /\ chain' = <<>>
    /\ element_outcomes' = <<>>
    /\ UNCHANGED <<page, expand_result, callVars, extractVars, renderVars, tableVars,
                   listVars,
                   mainVars, pipeVars, helperVars>>

\* scrape_url and scrape_url_batch from reading driver.page_source on
ReadPageSource ==
    /\ pc = "source"
    /\ \/ /\ UNCHANGED driver
          /\ ReturnEarly([content |-> msg.error_scraping, article_title |-> NoneStr])
       \/ \E page_soup \in ScrapePages, fmt \in ScrapeFormats :
             ReturnExtracted(page_soup, fmt, msg.no_content, msg.error_scraping)

Init ==
    /\ pc = "start"
    /\ entry \in {"scrape_url", "scrape_url_batch"}
    /\ url_kind \in {"web", "local"}
    /\ credentials \in BOOLEAN
    /\ driver \in {"None", "live"}
    /\ result = NoResult
    /\ page \in SUBSET HeaderPool
    /\ k = 0 /\ buttons = <<>> /\ clicked_any = FALSE
    /\ clicks = <<>> /\ element_outcomes = <<>> /\ chain = <<>>
    /\ expand_result = "unset"
    /\ IdleExtract /\ IdleRender /\ IdleTable /\ IdleList
    /\ IdleMain /\ IdlePipe /\ IdleHelper

Next ==
    \/ StartScrapeUrl
    \/ StartScrapeUrlBatch
    \/ ScrapeLocalFile
    \/ ExpandContent
    \/ TryGlobalToggleButton
    \/ FindAriaButtons
    \/ TryAriaExpandedButtons
    \/ TrySectionHeaders
    \/ TryAllToggleMethods
    \/ ExpandReturns
    \/ ReadPageSource

Spec == Init /\ [][Next]_vars

\* ------------------------------------------------------------------------
\* extract_sections and format_output on parsed pages
\* ------------------------------------------------------------------------

Td(kids) == E("td", kids)

Th(kids) == E("th", kids)

Tr(cells) == E("tr", cells)

\* a table element: the rows of its thead, if it has one, and of its tbody
TableNode(head_rows, body_trs_in) ==
    E("table", (IF head_rows = <<>> THEN <<>> ELSE <<E("thead", head_rows)>>)
               \o <<E("tbody", body_trs_in)>>)

\* a cell holding a two-item list whose first item contains the delimiter
\* and whose second item has a nested list
ListCell ==
    Td(<<Ul(<<Li(<<Text(<<"o", "|", "x">>)>>),
              Li(<<Text(<<"t">>), Ul(<<Li(<<Text(<<"n">>)>>)>>)>>)>>)>>)

\* a section holding a two-column table with one body row, one cell of which
\* holds a list
SecTable ==
    SectionNode(Header(<<"P", "a", "t", "h", "o", "p", "h", "y", "s", "i", "o", "l", "o", "g", "y">>),
                Shown(<<El("div", <<cls.table_wrapper>>, "",
                           <<TableNode(<<Tr(<<Th(<<Text(<<"S", "i", "g", "n">>)>>),
                                              Th(<<Text(<<"N", "o", "t", "e", "s", " ", "o", "n", " ", "i", "t">>)>>)>>)>>,
                                       <<Tr(<<Td(<<Text(<<"C", "o", "u", "g", "h">>)>>), ListCell>>)>>)>>)>>))

\* the sections a page is composed of
SectionPool ==
    { SecReferences, SecKeyReferences, SecCitedReferences, SecReference, SecClinical,
      SecUntitled, SecContentHeading, SecNoContainer, SecNothingYielded, SecTable }

\* the head of a page: with or without a title tag
Heads == {<<>>, TitleTag(<<"A", "s", "t", "h", "m", "a", " ", "-", " ", "A", "M", "B", "O", "S", "S">>)}

\* longest page, in sections
MaxSections == 2

ExtractPages ==
    {PageNode(h, s) : h \in Heads, s \in SeqsUpTo(SectionPool \cup {SecEmptyContainer}, 1)
                                         \cup SeqsUpTo(SectionPool, MaxSections)}

\* formats a caller passes to format_output
Formats == SupportedFormats \cup {"pdf"}

\* most format_output calls on one document
MaxRenders == 2

\* extract_sections(soup)
ExtractSections ==
    /\ pc = "start"
    /\ \E ex \in {extract_sections(soup)} :
          /\ sections' = ex.sections
          /\ article_title' = ex.article_title
    /\ steps' = section_steps(soup)
    /\ pc' = "extracted"
    /\ UNCHANGED <<soup, revealVars, callVars, renderVars, tableVars, listVars,
                   mainVars, pipeVars, helperVars>>

\* format_output(sections, output_format, article_title) on the extracted
\* document; an exception it raises is kept in `output`
FormatOutput ==
    /\ pc \in {"extracted", "formatted"}
    /\ render_calls < MaxRenders
    /\ \E fmt \in Formats :
          \E f \in {format_output(sections, fmt, article_title)} :
             /\ output_format' = fmt
             /\ output' = [exc |-> f.exc, value |-> f.value, fmt |-> fmt]
             /\ sections' = f.sections
    /\ prev_output' = output
    /\ render_calls' = render_calls + 1
    /\ pc' = "formatted"
    /\ UNCHANGED <<soup, article_title, steps, revealVars, callVars, tableVars, listVars,
                   mainVars, pipeVars, helperVars>>

InitExtract ==
    /\ pc = "start"
    /\ soup \in ExtractPages
    /\ sections = <<>> /\ article_title = NoneStr /\ steps = <<>>
    /\ IdleReveal /\ IdleCall /\ IdleRender /\ IdleTable /\ IdleList
    /\ IdleMain /\ IdlePipe /\ IdleHelper

NextExtract ==
    \/ ExtractSections
    \/ FormatOutput

SpecExtract == InitExtract /\ [][NextExtract]_vars

\* ------------------------------------------------------------------------
\* extract_sections on pages that vary the title sources and the images
\* ------------------------------------------------------------------------

\* a section without any h3 whose header region is a header-classed div
SecHeaderDiv ==
    SectionNode(<<El("div", << <<"s", "e", "c", "t", "i", "o", "n", "-", "h", "e", "a", "d", "e", "r">> >>, "", <<Text(<<"D", "i", "a", "g", "n", "o", "s", "i", "s">>)>>)>>,
                Shown(<<P(txt_paragraph)>>))

\* a section without any h3 whose title stands in a title-classed span
SecTitleSpan ==
    SectionNode(<<El("span", << <<"T", "i", "t", "l", "e", "-", "t", "e", "x", "t">> >>, "", <<Text(<<"T", "h", "e", "r", "a", "p", "y", " ", "p", "l", "a", "n">>)>>)>>,
                Shown(<<P(txt_paragraph)>>))

\* a section whose h3 stands in a header-classed div without marker
SecHeaderClassH3 ==
    SectionNode(<<El("div", << <<"h", "e", "a", "d", "e", "r">> >>, "", <<H3(<<"P", "r", "o", "g", "n", "o", "s", "i", "s">>)>>)>>,
                Shown(<<P(txt_paragraph)>>))

\* the src attributes of the images: protocol-relative, path-absolute,
\* absolute, relative to the document, and missing
ImageSources ==
    { <<"/", "/", "c", "d", "n", ".", "a", "m", "b", "o", "s", "s", ".", "c", "o", "m", "/", "a", ".", "p", "n", "g">>, <<"/", "m", "e", "d", "i", "a", "/", "a", ".", "p", "n", "g">>, <<"h", "t", "t", "p", "s", ":", "/", "/", "c", "d", "n", ".", "a", "m", "b", "o", "s", "s", ".", "c", "o", "m", "/", "a", ".", "p", "n", "g">>,
      <<"m", "e", "d", "i", "a", "/", "a", ".", "p", "n", "g">>, <<>> }

\* the span of the caption element
CaptionSpan(t) == <<El("span", <<cls.thumbnail_image_title>>, "", <<Text(t)>>)>>

\* the caption sources of an image: its title attribute and what stands
\* beside it in the image span
CaptionSources ==
    { [title |-> <<"L", "u", "n", "g">>, beside |-> <<>>],
      [title |-> <<>>, beside |-> CaptionSpan(<<"F", "i", "g", "u", "r", "e">>)],
      [title |-> <<>>, beside |-> CaptionSpan(<<>>)],
      [title |-> <<>>, beside |-> <<>>] }

\* a section whose content is a paragraph container holding one image span
SecImage(src, caption) ==
    SectionNode(Header(<<"I", "m", "a", "g", "i", "n", "g">>),
                Shown(<<El("div", <<cls.paragraph>>, "",
                           <<El("span", <<cls.thumbnail_image>>, "",
                                <<Img(src, caption.title)>> \o caption.beside)>>)>>))

\* a section whose image span holds no img element
SecImageless ==
    SectionNode(Header(<<"I", "m", "a", "g", "i", "n", "g">>),
                Shown(<<El("div", <<cls.paragraph>>, "",
                           <<El("span", <<cls.thumbnail_image>>, "", <<>>)>>)>>))

DetailSections ==
    {SecClinical, SecUntitled, SecHeaderDiv, SecTitleSpan, SecHeaderClassH3, SecImageless}
    \cup {SecImage(src, caption) : src \in ImageSources, caption \in CaptionSources}

\* the article header: missing, without title element, or with an h1, an h1
\* holding nothing but a citation, an h2, or a title-classed span
ArticleHeader(kids) == <<El("div", <<>>, "articleHeader", kids)>>

ArticleHeaders ==
    { <<>>, ArticleHeader(<<>>),
      ArticleHeader(<<E("h1", <<Text(<<"A", "s", "t", "h", "m", "a">>)>>)>>),
      ArticleHeader(<<E("h1", <<Text(<<"[", "1", "]">>)>>)>>),
      ArticleHeader(<<E("h2", <<Text(<<"A", "s", "t", "h", "m", "a", " ", "i", "n", " ", "a", "d", "u", "l", "t", "s">>)>>)>>),
      ArticleHeader(<<El("span", << <<"a", "r", "t", "i", "c", "l", "e", "-", "t", "i", "t", "l", "e">> >>, "", <<Text(<<"A", "s", "t", "h", "m", "a">>)>>)>>) }

\* the title tag: missing, with the suffix, and nothing but the suffix
TitleTags == {<<>>, TitleTag(<<"A", "s", "t", "h", "m", "a", " ", "-", " ", "A", "M", "B", "O", "S", "S">>), TitleTag(<<" ", "-", " ", "A", "M", "B", "O", "S", "S">>)}

\* a heading of the page outside the article header
MainHeadings == {<<>>, <<E("h1", <<Text(<<"B", "r", "o", "n", "c", "h", "i", "a", "l", " ", "a", "s", "t", "h", "m", "a">>)>>)>>}

DetailHeads == {t \o a \o h : t \in TitleTags, a \in ArticleHeaders, h \in MainHeadings}

DetailPages ==
    {PageNode(h, <<SecClinical>>) : h \in DetailHeads}
    \cup {PageNode(<<>>, pre \o <<s>>) : pre \in {<<>>, <<SecClinical>>}, s \in DetailSections}

InitDetail ==
    /\ pc = "start"
    /\ soup \in DetailPages
    /\ sections = <<>> /\ article_title = NoneStr /\ steps = <<>>
    /\ IdleReveal /\ IdleCall /\ IdleRender /\ IdleTable /\ IdleList
    /\ IdleMain /\ IdlePipe /\ IdleHelper

NextDetail == ExtractSections

SpecDetail == InitDetail /\ [][NextDetail]_vars

\* ------------------------------------------------------------------------
\* format_table_with_bullets on tables
\* ------------------------------------------------------------------------

\* cells: plain text, text containing the delimiter, and no text
PlainCell == Td(<<Text(<<"a">>)>>)

PipeCell == Td(<<Text(<<"x", "|", "y">>)>>)

EmptyCell == Td(<<>>)

\* a cell holding a list whose only item has two directly nested lists
TwoNestedListsCell ==
    Td(<<Ul(<<Li(<<Text(<<"p">>), Ul(<<Li(<<Text(<<"a">>)>>)>>),
                   Ul(<<Li(<<Text(<<"b">>)>>)>>)>>)>>)>>)

\* the rows a table body is composed of
RowPool ==
    { Tr(<<PlainCell>>), Tr(<<PlainCell, EmptyCell>>), Tr(<<PipeCell, PlainCell>>),
      Tr(<<PlainCell, ListCell>>), Tr(<<EmptyCell, EmptyCell>>),
      Tr(<<PlainCell, PlainCell, PipeCell>>), Tr(<<PlainCell, TwoNestedListsCell>>) }

\* longest table body, in rows
MaxRows == 2

\* a table has no thead or a thead of two header cells
HeadPool == {<<>>, <<Tr(<<Th(<<Text(<<"h">>)>>), Th(<<Text(<<"g">>)>>)>>)>>}

Tables == {TableNode(h, b) : h \in HeadPool, b \in SeqsUpTo(RowPool, MaxRows)}

\* format_table_with_bullets(table_element)
FormatTable ==
    /\ pc = "start"
    /\ table_content' = format_table_with_bullets(table_element)
    /\ pc' = "done"
    /\ UNCHANGED <<table_element, revealVars, callVars, extractVars, renderVars, listVars,
                   mainVars, pipeVars, helperVars>>

InitTable ==
    /\ pc = "start"
    /\ table_element \in Tables
    /\ table_content = <<>>
    /\ IdleReveal /\ IdleCall /\ IdleExtract /\ IdleRender /\ IdleList
    /\ IdleMain /\ IdlePipe /\ IdleHelper

NextTable == FormatTable

SpecTable == InitTable /\ [][NextTable]_vars

\* ------------------------------------------------------------------------
\* process_list on lists
\* ------------------------------------------------------------------------

\* lists without nesting
ListA == Ul(<<Li(<<Text(<<"a">>)>>)>>)

ListAB == Ul(<<Li(<<Text(<<"a">>)>>), Li(<<Text(<<"b">>)>>)>>)

ListB == Ul(<<Li(<<Text(<<"b">>)>>)>>)

\* what follows the leading text of an item: nothing, one nested list, a
\* nested list holding a nested list, two nested lists, and a nested list
\* followed by more text
TailPool ==
    { <<>>, <<ListA>>, <<ListAB>>,
      <<Ul(<<Li(<<Text(<<"c">>), ListB>>)>>)>>,
      <<ListA, ListB>>,
      <<ListA, Text(<<"d">>)>> }

ItemPool == {Li(<<Text(t)>> \o rest) : t \in {<<"p">>, <<"q">>}, rest \in TailPool}

\* most items of the outermost list
MaxItems == 2

Lists == {Ul(i) : i \in SeqsUpTo(ItemPool, MaxItems)}

\* process_list(ul_element)
ProcessList ==
    /\ pc = "start"
    /\ list_content' = process_list(ul_element)
    /\ pc' = "done"
    /\ UNCHANGED <<ul_element, revealVars, callVars, extractVars, renderVars, tableVars,
                   mainVars, pipeVars, helperVars>>

InitList ==
    /\ pc = "start"
    /\ ul_element \in Lists
    /\ list_content = <<>>
    /\ IdleReveal /\ IdleCall /\ IdleExtract /\ IdleRender /\ IdleTable
    /\ IdleMain /\ IdlePipe /\ IdleHelper

NextList == ProcessList

SpecList == InitList /\ [][NextList]_vars

\* ------------------------------------------------------------------------
\* main, scrape_multiple_urls and cleanup
\* ------------------------------------------------------------------------

\* most URLs read_urls_from_file returns
MaxUrls == 2

\* the lines of a URL file that start with http:// or https://
UrlPool == {"https://next.amboss.com/us/article/a", "https://next.amboss.com/us/article/b"}

\* a rendered document
RenderedContent ==
    _format_markdown(<<[title |-> txt_clinical,
                        content |-> <<"<p>">> \o txt_paragraph \o <<"</p>">>]>>,
                     <<"A", "s", "t", "h", "m", "a">>)

\* what scrape_url_batch returns for a web URL while the session is live:
\* the message of an exception it caught, the no-content message, or the
\* rendered document
BatchContents == {msg.error_scraping, msg.no_content, RenderedContent}

\* what scrape_url returns: for a local file what scrape_local_file
\* returns, for a web URL also the messages of a failed setup or login
SingleContents(kind, with_login) ==
    IF kind = "local"
    THEN {msg.file_not_found, msg.error_reading, msg.no_content_local, RenderedContent}
    ELSE BatchContents \cup {msg.setup_failed}
         \cup (IF with_login THEN {msg.login_failed} ELSE {})

\* content.startswith("Error")
is_error(content) == StartsWith(content, <<"E", "r", "r", "o", "r">>)

\* f"Error: {str(e)}"
loop_error == <<"E", "r", "r", "o", "r">> \o <<": ", "(exception)">>

\* results[key] = value on a dictionary kept as its items in insertion order
dict_set(d, key, value) ==
    IF \E i \in 1..Len(d) : d[i].key = key
    THEN [i \in 1..Len(d) |-> IF d[i].key = key THEN [key |-> key, value |-> value]
                               ELSE d[i]]
    ELSE Append(d, [key |-> key, value |-> value])

\* one iteration of the loop of scrape_multiple_urls for the content that
\* scrape_url_batch returned: what `results` holds for the URL afterwards
\* and what is added to the counters; writing the output file raises when
\* `saved` is false
iteration(content, saved) ==
    IF content # <<>> /\ ~is_error(content)
    THEN IF saved THEN [value |-> content, successful |-> 1, failed |-> 0]
         ELSE [value |-> loop_error, successful |-> 1, failed |-> 1]
    ELSE [value |-> content, successful |-> 0, failed |-> 1]

\* the summary file main writes: the three counts and one line per item of
\* `results`
summary_of(url_list, d) ==
    [written |-> TRUE,
     total |-> Len(url_list),
     successful |-> Cardinality({i \in 1..Len(d) : ~is_error(d[i].value)}),
     failed |-> Cardinality({i \in 1..Len(d) : is_error(d[i].value)}),
     lines |-> [i \in 1..Len(d) |->
                  [status |-> IF ~is_error(d[i].value) THEN "(U+2713)" ELSE "(U+2717)",
                   url |-> d[i].key]]]

\* faulty variant of cleanup: driver.quit() is called without try/except
cleanup_without_except(drv, quit_raised) ==
    IF drv # "None" /\ ~quit_raised THEN "None" ELSE drv

\* AmbossScraper.cleanup: self.driver after the call, whether driver.quit()
\* raised or not
cleanup(drv, quit_raised) == IF drv # "None" THEN "None" ELSE drv

\* the try block of main ends with `exception` and control reaches `finally`
Leave(exception) ==
    /\ raised' = exception
    /\ pc' = "finally"

\* main in batch mode: read_urls_from_file, and sys.exit(1) when it returns
\* no URL
ReadUrlsFromFile ==
    /\ pc = "main" /\ entry = "urls_file"
    /\ \E url_list \in SeqsUpTo(UrlPool, MaxUrls) :
          /\ urls' = url_list
          /\ IF url_list = <<>> THEN Leave("SystemExit")
             ELSE pc' = "setup" /\ UNCHANGED raised
    /\ UNCHANGED <<session, results, successful, failed, summary, cleanup_ran,
                   revealVars, callVars, extractVars, renderVars, tableVars, listVars,
                   pipeVars, helperVars>>

\* faulty variant of SetupSession: the loop is entered although setup_driver
\* or login returned False
SetupSessionThenLoop ==
    /\ pc = "setup"
    /\ \E outcome \in {"unavailable", "setup_failed", "ok"}
                      \cup (IF credentials THEN {"login_failed"} ELSE {}) :
          /\ session' = outcome
          /\ driver' = IF outcome \in {"ok", "login_failed"} THEN "live" ELSE driver
          /\ IF outcome = "unavailable" THEN Leave("Exception") /\ UNCHANGED k
             ELSE pc' = "loop" /\ k' = 1 /\ UNCHANGED raised
    /\ UNCHANGED <<urls, results, successful, failed, summary, cleanup_ran,
                   entry, url_kind, credentials, result,
                   page, buttons, clicked_any, clicks, element_outcomes, chain,
                   expand_result,
                   extractVars, renderVars, tableVars, listVars, pipeVars, helperVars>>

\* scrape_multiple_urls up to its loop: setup_driver and login, once for
\* all URLs
SetupSession ==
    /\ pc = "setup"
    /\ \E outcome \in {"unavailable", "setup_failed", "ok"}
                      \cup (IF credentials THEN {"login_failed"} ELSE {}) :
          /\ session' = outcome
          /\ driver' = IF outcome \in {"ok", "login_failed"} THEN "live" ELSE driver
          /\ IF outcome = "unavailable" THEN Leave("Exception") /\ UNCHANGED k
             ELSE IF outcome = "ok" THEN pc' = "loop" /\ k' = 1 /\ UNCHANGED raised
             ELSE pc' = "summary" /\ UNCHANGED <<k, raised>>
    /\ UNCHANGED <<urls, results, successful, failed, summary, cleanup_ran,
                   entry, url_kind, credentials, result,
                   page, buttons, clicked_any, clicks, element_outcomes, chain,
                   expand_result,
                   extractVars, renderVars, tableVars, listVars, pipeVars, helperVars>>

\* one iteration of the loop of scrape_multiple_urls
ScrapeNextUrl ==
    /\ pc = "loop"
    /\ \E content \in BatchContents, saved \in BOOLEAN :
          \E it \in {iteration(content, saved)} :
             /\ results' = dict_set(results, urls[k], it.value)
             /\ successful' = successful + it.successful
             /\ failed' = failed + it.failed
    /\ k' = k + 1
    /\ pc' = IF k = Len(urls) THEN "summary" ELSE "loop"
    /\ UNCHANGED <<urls, session, summary, raised, cleanup_ran,
                   page, buttons, clicked_any, clicks, element_outcomes, chain,
                   expand_result,
                   callVars, extractVars, renderVars, tableVars, listVars, pipeVars, helperVars>>

\* main writes the summary file from the returned dictionary
WriteSummary ==
    /\ pc = "summary"
    /\ \/ /\ summary' = summary_of(urls, results)
          /\ pc' = "finally"
          /\ UNCHANGED raised
       \/ /\ Leave("Exception")
          /\ UNCHANGED summary
    /\ UNCHANGED <<urls, session, results, successful, failed, cleanup_ran,
                   revealVars, callVars, extractVars, renderVars, tableVars, listVars,
                   pipeVars, helperVars>>

\* main in single mode: scrape_url, which sets up the session for a web
\* URL, then the output is written or printed
ScrapeSingleUrl ==
    /\ pc = "main" /\ entry = "url"
    /\ \E content \in SingleContents(url_kind, credentials),
          exception \in {"None", "Exception", "KeyboardInterrupt"} :
          /\ result' = IF exception = "KeyboardInterrupt" THEN result
                        ELSE [content |-> content, article_title |-> NoneStr]
          /\ driver' = IF url_kind = "web" /\ content # msg.setup_failed THEN "live"
                        ELSE driver
          /\ Leave(exception)
    /\ UNCHANGED <<urls, session, results, successful, failed, summary, cleanup_ran,
                   entry, url_kind, credentials, revealVars, extractVars, renderVars,
                   tableVars, listVars, pipeVars, helperVars>>

\* the user interrupts the batch run
KeyboardInterrupt ==
    /\ pc \in {"setup", "loop", "summary"}
    /\ Leave("KeyboardInterrupt")
    /\ UNCHANGED <<urls, session, results, successful, failed, summary, cleanup_ran,
                   revealVars, callVars, extractVars, renderVars, tableVars, listVars,
                   pipeVars, helperVars>>

\* the finally clause of main: scraper.cleanup()
Cleanup ==
    /\ pc = "finally"
    /\ \E quit_raised \in BOOLEAN : driver' = cleanup(driver, quit_raised)
    /\ cleanup_ran' = TRUE
    /\ pc' = "terminated"
    /\ UNCHANGED <<urls, session, results, successful, failed, summary, raised,
                   entry, url_kind, credentials, result, revealVars, extractVars,
                   renderVars, tableVars, listVars, pipeVars, helperVars>>

InitMain ==
    /\ pc = "main"
    /\ entry \in {"url", "urls_file"}
    /\ url_kind \in {"web", "local"}
    /\ credentials \in BOOLEAN
    /\ driver = "None"
    /\ result = NoResult
    /\ IdleReveal /\ IdleExtract /\ IdleRender /\ IdleTable /\ IdleList
    /\ IdleMain /\ IdlePipe /\ IdleHelper

NextMain ==
    \/ ReadUrlsFromFile
    \/ SetupSession
    \/ ScrapeNextUrl
    \/ WriteSummary
    \/ ScrapeSingleUrl
    \/ KeyboardInterrupt
    \/ Cleanup

SpecMain == InitMain /\ [][NextMain]_vars

\* ------------------------------------------------------------------------
\* Two invocations of the pipeline on independent pages, interleaved
\* ------------------------------------------------------------------------

\* the invocations
CallIds == {1, 2}

\* the pages and formats the invocations are given
PipePages ==
    { ScenarioPage, PageNode(<<>>, <<SecClinical, SecTable>>),
      PageNode(TitleTag(<<"L", "i", "s", "t", "s", " ", "-", " ", "A", "M", "B", "O", "S", "S">>), <<SecUntitled>>) }

PipeFormats == {"text", "markdown"}

\* faulty variant of frame_of: `sections` is one list shared by all
\* invocations
frame_shared(c) == 1

\* `sections = []` in extract_sections: every invocation binds the name to a
\* list of its own
frame_of(c) == c

\* another invocation is between its first and its last step
Overlaps(c) == \E d \in CallIds \ {c} : calls[d].pc \in {"loop", "extracted"}

\* invocation c takes a step to position `to`
Advance(c, to, changes) ==
    calls' = [calls EXCEPT ![c] =
                 [f \in DOMAIN calls[c] |->
                     IF f = "pc" THEN to
                     ELSE IF f = "overlapped" THEN calls[c].overlapped \/ Overlaps(c)
                     ELSE IF f \in DOMAIN changes THEN changes[f]
                     ELSE calls[c][f]]]

\* extract_sections up to its loop
BeginExtract ==
    /\ \E c \in CallIds :
          /\ calls[c].pc = "start"
          /\ frames' = [frames EXCEPT ![frame_of(c)] = <<>>]
          /\ Advance(c, "loop",
                     [article_title |-> extract_article_title_from_soup(calls[c].soup),
                      i |-> 1])
    /\ UNCHANGED <<pc, revealVars, callVars, extractVars, renderVars, tableVars, listVars,
                   mainVars, helperVars>>

\* one iteration of the loop of extract_sections
ExtractStep ==
    /\ \E c \in CallIds :
          /\ calls[c].pc = "loop"
          /\ \E elements \in {section_elements(calls[c].soup)} :
                /\ calls[c].i <= Len(elements)
                /\ \E st \in {section_step(elements[calls[c].i], calls[c].i)} :
                      frames' = [frames EXCEPT ![frame_of(c)] =
                                    IF st.keep THEN Append(@, st.section_data) ELSE @]
          /\ Advance(c, "loop", [i |-> calls[c].i + 1])
    /\ UNCHANGED <<pc, revealVars, callVars, extractVars, renderVars, tableVars, listVars,
                   mainVars, helperVars>>

\* extract_sections returns its list
ExtractReturn ==
    /\ \E c \in CallIds :
          /\ calls[c].pc = "loop"
          /\ calls[c].i > Len(section_elements(calls[c].soup))
          /\ Advance(c, "extracted", [sections |-> frames[frame_of(c)]])
    /\ UNCHANGED frames
    /\ UNCHANGED <<pc, revealVars, callVars, extractVars, renderVars, tableVars, listVars,
                   mainVars, helperVars>>

\* format_output on what extract_sections returned
Render ==
    /\ \E c \in CallIds :
          /\ calls[c].pc = "extracted"
          /\ Advance(c, "returned",
                     [value |-> format_output(calls[c].sections, calls[c].fmt,
                                              calls[c].article_title).value])
    /\ UNCHANGED frames
    /\ UNCHANGED <<pc, revealVars, callVars, extractVars, renderVars, tableVars, listVars,
                   mainVars, helperVars>>

InitPipe ==
    /\ pc = "pipeline"
    /\ calls \in [CallIds -> {[pc |-> "start", soup |-> s, fmt |-> f, i |-> 0,
                               article_title |-> NoneStr, sections |-> <<>>,
                               value |-> NoneStr, overlapped |-> FALSE] :
                                  s \in PipePages, f \in PipeFormats}]
    /\ frames = [c \in CallIds |-> <<>>]
    /\ IdleReveal /\ IdleCall /\ IdleExtract /\ IdleRender /\ IdleTable /\ IdleList
    /\ IdleMain /\ IdleHelper

NextPipe ==
    \/ BeginExtract
    \/ ExtractStep
    \/ ExtractReturn
    \/ Render

SpecPipe == InitPipe /\ [][NextPipe]_vars


\* ------------------------------------------------------------------------
\* _check_content_visibility on its own
\* ------------------------------------------------------------------------

\* largest number of content-shown markers on a page
MaxMarkers == 1

\* largest number of section nodes on a page
MaxSectionNodes == 2

\* texts of section nodes: empty, whitespace only, at the threshold, at the
\* threshold with whitespace around it, above the threshold, unreadable
SectionTexts ==
    { <<>>, <<" ", "\n">>, Filler(VisibilityThreshold),
      <<" ">> \o Filler(VisibilityThreshold) \o <<"\n">>,
      <<"\t">> \o Filler(VisibilityThreshold + 1), Unreadable }

VisibilityViews ==
    { View(q, m, t) : q \in BOOLEAN, m \in 0..MaxMarkers,
                      t \in SeqsUpTo(SectionTexts, MaxSectionNodes) }

\* a reveal method calls _check_content_visibility
CheckContentVisibility ==
    /\ pc = "visibility"
    /\ visible' = _check_content_visibility(page_view)
    /\ pc' = "returned"
    /\ UNCHANGED <<page_view, raw_text, cleaned_text, revealVars, callVars, extractVars,
                   renderVars, tableVars, listVars, mainVars, pipeVars>>

InitVisible ==
    /\ pc = "visibility"
    /\ page_view \in VisibilityViews
    /\ visible = "unset"
    /\ raw_text = NoneStr /\ cleaned_text = NoneStr
    /\ IdleReveal /\ IdleCall /\ IdleExtract /\ IdleRender /\ IdleTable /\ IdleList
    /\ IdleMain /\ IdlePipe

NextVisible == CheckContentVisibility

SpecVisible == InitVisible /\ [][NextVisible]_vars

\* ------------------------------------------------------------------------
\* extract_sections on sections with every kind of child
\* ------------------------------------------------------------------------

\* a list with one item
OneItemList(t) == Ul(<<Li(<<Text(t)>>)>>)

\* children of a content node: a heading, a paragraph tag, a list, a
\* paragraph container that also carries a box class, a warning box, a span
\* with a long text, a span with a short text, a string, an ordered list
\* whose item holds a nested list, and a quotation holding a list
ContentChildren ==
    { H3(<<"S", "i", "g", "n", "s">>), P(txt_paragraph), OneItemList(<<"C", "o", "u", "g", "h">>),
      El("div", <<cls.paragraph, cls.merke>>, "", <<Text(<<"A", "v", "o", "i", "d", " ", "t", "r", "i", "g", "g", "e", "r", "s">>)>>),
      El("div", <<cls.cave>>, "", <<Text(<<"S", "t", "a", "t", "u", "s", " ", "a", "s", "t", "h", "m", "a", "t", "i", "c", "u", "s">>)>>),
      E("span", <<Text(<<"R", "e", "v", "e", "r", "s", "i", "b", "l", "e", " ", "a", "i", "r", "w", "a", "y", " ", "o", "b", "s", "t", "r", "u", "c", "t", "i", "o", "n">>)>>),
      E("span", <<Text(<<"S", "h", "o", "r", "t", " ", "r", "e", "m", "a", "r", "k">>)>>),
      Text(<<"L", "o", "o", "s", "e", " ", "t", "e", "x", "t", " ", "b", "e", "t", "w", "e", "e", "n", " ", "t", "h", "e", " ", "e", "l", "e", "m", "e", "n", "t", "s">>),
      E("ol", <<Li(<<Text(<<"F", "i", "r", "s", "t", "-", "l", "i", "n", "e", " ", "t", "h", "e", "r", "a", "p", "y", ":", " ">>), OneItemList(<<"S", "a", "l", "b", "u", "t", "a", "m", "o", "l">>)>>)>>),
      E("blockquote", <<Text(<<"G", "u", "i", "d", "e", "l", "i", "n", "e", " ", "r", "e", "c", "o", "m", "m", "e", "n", "d", "a", "t", "i", "o", "n", ":", " ">>), OneItemList(<<"S", "t", "e", "p", " ", "u", "p">>)>>) }

\* most children of a content node
MaxChildren == 2

\* a section around the children: in the content container itself, or in a
\* baseStyles wrapper inside it
SectionOf(kids, wrapper) ==
    SectionNode(Header(txt_clinical), Shown(IF wrapper THEN Wrapped(kids) ELSE kids))

ContentPages ==
    { PageNode(<<>>, <<SectionOf(kids, w)>>) :
        kids \in SeqsUpTo(ContentChildren, MaxChildren), w \in BOOLEAN }

InitContent ==
    /\ pc = "start"
    /\ soup \in ContentPages
    /\ sections = <<>> /\ article_title = NoneStr /\ steps = <<>>
    /\ IdleReveal /\ IdleCall /\ IdleRender /\ IdleTable /\ IdleList
    /\ IdleMain /\ IdlePipe /\ IdleHelper

NextContent == ExtractSections

SpecContent == InitContent /\ [][NextContent]_vars

\* ------------------------------------------------------------------------
\* clean_text on its own
\* ------------------------------------------------------------------------

\* pieces of page text: words with a space, a citation, a UI label and its
\* two halves, and the two halves of a citation
Fragments ==
    { <<"a", " ">>, <<" ", "b">>, <<"[", "1", "]">>, <<"N", "o", "t", "e", "s">>, <<"N", "o">>, <<"t", "e", "s">>, <<"[">>, <<"1", "]">> }

\* most pieces of one text
MaxFragments == 3

RECURSIVE Pieced(_)
Pieced(pieces) == IF pieces = <<>> THEN <<>> ELSE pieces[1] \o Pieced(Tail(pieces))

CleanInputs == { Pieced(pieces) : pieces \in SeqsUpTo(Fragments, MaxFragments) }

\* a caller hands a text to clean_text
CleanText ==
    /\ pc = "clean"
    /\ cleaned_text' = clean_text(raw_text)
    /\ pc' = "returned"
    /\ UNCHANGED <<raw_text, page_view, visible, revealVars, callVars, extractVars,
                   renderVars, tableVars, listVars, mainVars, pipeVars>>

InitClean ==
    /\ pc = "clean"
    /\ raw_text \in CleanInputs
    /\ cleaned_text = NoneStr
    /\ page_view = <<>> /\ visible = "unset"
    /\ IdleReveal /\ IdleCall /\ IdleExtract /\ IdleRender /\ IdleTable /\ IdleList
    /\ IdleMain /\ IdlePipe

NextClean == CleanText

SpecClean == InitClean /\ [][NextClean]_vars
\* ------------------------------------------------------------------------
\* Properties of the reveal chain
\* ------------------------------------------------------------------------

\* the order in which the chain is to try its strategies
MethodOrder == <<"global", "aria", "headers">>

\* C1: the reveal chain runs its strategies one after another in the order
\* global toggle, aria-expanded controls, section headers: the events of the
\* chain alternate between a start and the return of the strategy started,
\* the n-th strategy started is the n-th of the order, a strategy is started
\* only right after the one before it returned False (so after every earlier
\* one failed and never after a success), and the strategy that is running
\* is the one started last
C1_SequentialShortCircuit ==
    /\ Len(chain) <= 2 * Len(MethodOrder)
    /\ \A i \in 1..Len(chain) :
          /\ chain[i].method = MethodOrder[(i + 1) \div 2]
          /\ chain[i].ev = IF i % 2 = 1 THEN "start" ELSE "return"
          /\ (i % 2 = 1 /\ i > 1) => chain[i - 1].result = FALSE
    /\ pc \in Methods =>
          /\ chain # <<>>
          /\ chain[Len(chain)].ev = "start"
          /\ chain[Len(chain)].method = pc

\* the global toggle failed, the aria-expanded controls succeeded and the
\* section headers were never tried
C1_Witness ==
    /\ pc = "expanded"
    /\ Len(chain) = 4
    /\ chain[2].result = FALSE
    /\ chain[4].result = TRUE
    /\ expand_result = "True"

\* C2: expand_content always returns a boolean and never raises: every step
\* taken inside the chain stays in the chain or returns to expand_content,
\* expand_content hands True or False to its caller whatever happened inside
\* the strategies, and the caller goes on to read the page source whichever
\* of the two it got
C2_ExpandNeverBlocksCaller ==
    [][ /\ pc \in Methods \cup {"try_all"} => pc' \in Methods \cup {"try_all", "expanded"}
        /\ pc' = "expanded" => expand_result' \in {"True", "False"}
        /\ pc = "expanded" => (pc' = "source" /\ expand_result' = expand_result) ]_vars

\* every strategy failed, one of them by an exception, and expand_content
\* returns False to its caller
C2_Witness ==
    /\ pc = "expanded"
    /\ expand_result = "False"
    /\ \E i \in 1..Len(chain) : chain[i].ev = "return" /\ chain[i].raised

\* ------------------------------------------------------------------------
\* Properties of extraction
\* ------------------------------------------------------------------------

\* the title contains "references" in some letter case
MentionsReferences(title) ==
    \E lowered \in {Lower(title)} :
        \E i \in 1..Len(title) :
            /\ i + 9 <= Len(title)
            /\ SubSeq(lowered, i, i + 9) = <<"r", "e", "f", "e", "r", "e", "n", "c", "e", "s">>

\* C3: no section whose resolved title contains "references" in any letter
\* case is among the sections extract_sections returns, block extraction is
\* not invoked for such a section, and the page with a References section
\* and a Clinical Features section yields exactly the section Clinical
\* Features
C3_ReferencesNeverExtracted ==
    pc # "start" =>
        /\ \A i \in 1..Len(sections) : ~MentionsReferences(sections[i].title)
        /\ \A i \in 1..Len(steps) :
              MentionsReferences(steps[i].title) => ~steps[i].called /\ ~steps[i].keep
        /\ soup = ScenarioPage => Len(sections) = 1 /\ sections[1].title = txt_clinical

\* the scenario page has been extracted: its References section was skipped
\* without block extraction and its Clinical Features section was kept
C3_Witness ==
    /\ pc = "extracted"
    /\ soup = ScenarioPage
    /\ Len(steps) = 2
    /\ ~steps[1].called
    /\ steps[2].keep
    /\ Len(sections) = 1

\* the section has a block: its content container is located and some child
\* of it yields a block
HasBlock(section) ==
    \E base \in {base_content(section)} : base # NoNode /\ content_parts(base.kids) # <<>>

\* C4: every section retained by extract_sections has at least one block: a
\* section whose content container cannot be located, or whose children all
\* yield no block, is absent from the result
C4_RetainedSectionsHaveBlocks ==
    pc # "start" =>
        /\ \A i \in 1..Len(sections) :
              "content" \in DOMAIN sections[i] /\ sections[i].content # <<>>
        /\ \A elements \in {section_elements(soup)} :
              /\ Len(steps) = Len(elements)
              /\ \A i \in 1..Len(steps) :
                    steps[i].keep =>
                        /\ content_container(elements[i]) # NoNode
                        /\ HasBlock(elements[i])
        /\ Len(sections) = Cardinality({i \in 1..Len(steps) : steps[i].keep})

\* a page whose first section has no content container and whose second
\* section has a block: only the second is retained
C4_Witness ==
    /\ pc = "extracted"
    /\ Len(steps) = 2
    /\ steps[1].called /\ ~steps[1].keep
    /\ content_container(section_elements(soup)[1]) = NoNode
    /\ steps[2].keep
    /\ Len(sections) = 1

\* ------------------------------------------------------------------------
\* Properties of rendering
\* ------------------------------------------------------------------------

\* C5: format_output raises the unsupported-format error for every format
\* other than text, markdown and html, whatever the document, and raises
\* nothing for these three on a document extract_sections produced
C5_UnsupportedFormatRaises ==
    pc = "formatted" =>
        output.exc = IF output.fmt \in {"text", "markdown", "html"} THEN "None"
                     ELSE "ValueError"

\* a document without sections was handed over with the format pdf
C5_Witness ==
    /\ pc = "formatted"
    /\ sections = <<>>
    /\ output.fmt = "pdf"
    /\ output.exc = "ValueError"

\* C6: when extraction ran and retained no section, scrape_url,
\* scrape_url_batch and scrape_local_file return the no-content message
\* without a title as their result, and the renderer was not called
C6_NoSectionsIsNormalResult ==
    (pc = "returned" /\ soup # NoNode /\ sections = <<>>) =>
        /\ result.content = IF url_kind = "local" THEN <<"No content found in local file">>
                            ELSE <<"No content found">>
        /\ result.article_title = NoneStr
        /\ render_calls = 0
        /\ output = NoOutput

\* scrape_url_batch found only a references section on the page it read
C6_Witness ==
    /\ pc = "returned"
    /\ entry = "scrape_url_batch"
    /\ url_kind = "web"
    /\ soup = ReferencesOnlyPage
    /\ sections = <<>>
    /\ result.content = <<"No content found">>

CountAtoms(s, a) == Cardinality({i \in 1..Len(s) : s[i] = a})

\* C8: splitting a rendered row on the delimiter yields as many columns as
\* the source row has cells, also when a cell text contains the delimiter,
\* and the returned table has that number of cells in the row
C8_ColumnCountPreserved ==
    pc = "done" =>
        /\ \A r \in 1..Len(table_body_trs(table_element)) :
              Len(Mid(Split(row_markup(row_cells(table_body_trs(table_element)[r])), "|")))
                  = Len(find_all(table_body_trs(table_element)[r], {"td", "th"}))
        /\ table_headers(table_element) # <<>> =>
              \A r \in 1..Len(table_body_trs(table_element)) :
                 Len(rendered_body(table_rows(table_element))[r])
                     = Len(find_all(table_body_trs(table_element)[r], {"td", "th"}))

\* C9: a table without header cells gets no header row, and every body row
\* of the source is a body row of the returned table, once and in source
\* order, with or without a header
C9_BodyRowsKept ==
    pc = "done" =>
        /\ CountAtoms(table_content, "<th>") = Len(table_headers(table_element))
        /\ CountAtoms(table_content, "<tr>\n") = Len(table_body_trs(table_element))
        /\ Len(rendered_body(table_rows(table_element)))
               = Len(table_body_trs(table_element))
        /\ \A r \in 1..Len(table_body_trs(table_element)) :
              rendered_body(table_rows(table_element))[r]
                  = Mid(Split(row_markup(row_cells(table_body_trs(table_element)[r])), "|"))

\* the items of a source list in depth-first order, each with its depth and
\* the text that precedes its first directly nested list
RECURSIVE SourceItems(_, _)
RECURSIVE SourceItemsOfAll(_, _)
RECURSIVE SourceItemsOfLists(_, _)
SourceItems(ul, depth) == SourceItemsOfAll(find_all_direct(ul, {"li"}), depth)

SourceItemsOfAll(lis, depth) ==
    IF lis = <<>> THEN <<>>
    ELSE << [depth |-> depth, text |-> li_text(lis[1])] >>
         \o SourceItemsOfLists(find_all_direct(lis[1], {"ul"}), depth + 1)
         \o SourceItemsOfAll(Tail(lis), depth)

SourceItemsOfLists(uls, depth) ==
    IF uls = <<>> THEN <<>>
    ELSE SourceItems(uls[1], depth) \o SourceItemsOfLists(Tail(uls), depth)

\* the items of the output of process_list read in order, each with the
\* depth at which it stands
RECURSIVE OutputItems(_, _)
OutputItems(lines, depth) ==
    IF lines = <<>> THEN <<>>
    ELSE IF lines[1] = <<"<ul>">> THEN OutputItems(Tail(lines), depth + 1)
    ELSE IF lines[1] = <<"</ul>">> THEN OutputItems(Tail(lines), depth - 1)
    ELSE IF lines[1] = <<"</li>">> THEN OutputItems(Tail(lines), depth)
    ELSE << [depth |-> depth, text |-> Tail(lines[1])] >> \o OutputItems(Tail(lines), depth)

\* C10: reading the output of process_list in depth-first order gives the
\* source items in their order and at their depth: every directly nested
\* list of an item stands below that item, and no item is lost, duplicated
\* or moved
C10_DepthFirstPreserved ==
    pc = "done" => OutputItems(list_content, 1) = SourceItems(ul_element, 1)

\* the lines a list cell is to hold for the items of its lists, read in
\* depth-first order: one line per item with text, top-level items behind the
\* bullet glyph, nested items behind the indentation and the nested glyph
RECURSIVE ExpectedBulletLines(_)
ExpectedBulletLines(items) ==
    IF items = <<>> THEN <<>>
    ELSE (IF items[1].text = <<>> THEN <<>>
          ELSE IF items[1].depth = 1
               THEN << <<bullets.top, " ">> \o items[1].text >>
               ELSE << <<bullets.indent, bullets.nested, " ">> \o items[1].text >>)
         \o ExpectedBulletLines(Tail(items))

\* the elements of a sequence
Elements(seq) == {seq[i] : i \in 1..Len(seq)}

\* the cells of the table body that directly contain a list
ListCells(table) ==
    { td \in UNION { Elements(find_all(tr, {"td", "th"})) :
                        tr \in Elements(table_body_trs(table)) } :
         find_all_direct(td, {"ul"}) # <<>> }

\* C11: the string of a body cell that directly contains lists holds one
\* line per list item with text, in depth-first source order, with the
\* glyph of its level, the lines joined by "<br/>" and the delimiter escaped
C11_ListCellLines ==
    pc = "done" =>
        \A td \in ListCells(table_element) :
            cell_text(td)
                = escape_pipes(Join(ExpectedBulletLines(
                      SourceItemsOfLists(find_all_direct(td, {"ul"}), 1)), <<"<br/>">>))

\* C12: the title of every section of the page is the first non-empty
\* result of the five strategies of extract_section_title, taken in their
\* order, the placeholder "Section n" only when all five find nothing, and
\* it is never empty
C12_TitleFromFiveStrategies ==
    pc = "extracted" =>
        \A elements \in {section_elements(soup)} :
            \A i \in 1..Len(elements) :
                /\ steps[i].title # <<>>
                /\ steps[i].title = resolved_title(extract_section_title(elements[i]), i)

\* C13: the article title is the first non-empty one of the page title
\* without its suffix " - AMBOSS", the text of the heading of the article
\* header, the text of the first h1 of the page and "Medical Content"; empty
\* candidates are skipped and the title is never empty
C13_ArticleTitleFirstNonEmpty ==
    pc = "extracted" =>
        /\ article_title # <<>>
        /\ article_title
               = first_title(<< page_title(soup),
                                cleaned_or_empty(header_title_element(article_header(soup))),
                                cleaned_or_empty(find(soup, "h1")),
                                <<"M", "e", "d", "i", "c", "a", "l", " ", "C", "o", "n", "t", "e", "n", "t">> >>)

\* the characters of s from position j up to the next occurrence of the
\* atom `stop`
RECURSIVE Until(_, _, _)
Until(s, j, stop) ==
    IF j > Len(s) \/ s[j] = stop THEN <<>> ELSE <<s[j]>> \o Until(s, j + 1, stop)

\* the images of a section content read from position j on: the URL and the
\* caption of every img element
RECURSIVE ImagesFrom(_, _)
ImagesFrom(content, j) ==
    IF j > Len(content) THEN <<>>
    ELSE IF content[j] = "<div style=\"text-align: center; margin: 20px 0;\"><img src=\""
    THEN LET url == Until(content, j + 1, "\" alt=\"")
         IN  << [url |-> url,
                 caption |-> Until(content, j + Len(url) + 2,
                     "\" width=\"400\" style=\"max-width: 100%; height: auto;\"><p><em>")] >>
             \o ImagesFrom(content, j + 1)
    ELSE ImagesFrom(content, j + 1)

IsAbsoluteUrl(url) == StartsWith(url, <<"h", "t", "t", "p", "s", ":", "/", "/">>) \/ StartsWith(url, <<"h", "t", "t", "p", ":", "/", "/">>)

\* the URL an image is to carry for a src attribute
ResolvedUrl(src) ==
    IF StartsWith(src, <<"/", "/">>) THEN <<"h", "t", "t", "p", "s", ":">> \o src
    ELSE IF StartsWith(src, <<"/">>) THEN <<"h", "t", "t", "p", "s", ":", "/", "/", "n", "e", "x", "t", ".", "a", "m", "b", "o", "s", "s", ".", "c", "o", "m">> \o src
    ELSE src

\* the caption an image is to carry: the title attribute, else the text of
\* the caption element, else the placeholder
ExpectedCaption(img, caption_element) ==
    IF img.title # <<>> THEN img.title
    ELSE IF caption_element # NoNode /\ get_text(caption_element) # <<>>
    THEN get_text(caption_element)
    ELSE <<"M", "e", "d", "i", "c", "a", "l", " ", "I", "m", "a", "g", "e">>

\* the images a section is to hold for its image markers: none for a marker
\* without img element or without a URL that resolves to an absolute one
RECURSIVE ExpectedImages(_)
ExpectedImages(markers) ==
    IF markers = <<>> THEN <<>>
    ELSE (LET img == find(markers[1], "img")
          IN  IF img = NoNode THEN <<>>
              ELSE IF ~IsAbsoluteUrl(ResolvedUrl(img.src)) THEN <<>>
              ELSE << [url |-> ResolvedUrl(img.src),
                       caption |-> ExpectedCaption(img, title_span(markers[1]))] >>)
         \o ExpectedImages(Tail(markers))

\* C14: the images of every extracted section content are those of the
\* section's image markers that have a resolvable URL, in their order, each
\* with an absolute URL ("https:" put before "//", the site origin before
\* "/") and a non-empty caption (the title attribute, else the caption
\* element's text, else "Medical Image")
C14_ImagesAbsoluteAndCaptioned ==
    pc = "extracted" =>
        \A elements \in {section_elements(soup)} :
            \A i \in 1..Len(steps) :
                steps[i].called =>
                    \A images \in {ImagesFrom(steps[i].section_data.content, 1)} :
                        /\ images = ExpectedImages(thumbnails(elements[i]))
                        /\ \A n \in 1..Len(images) :
                               IsAbsoluteUrl(images[n].url) /\ images[n].caption # <<>>

\* ------------------------------------------------------------------------
\* Properties of the renderings
\* ------------------------------------------------------------------------

\* the lines of a rendering of the document in `sections`: the title lines
\* when there is a title, then for every section the lines of its heading,
\* its content string and a blank line
RECURSIVE SectionLines(_, _)
SectionLines(Heading(_, _), i) ==
    IF i > Len(sections) THEN <<>>
    ELSE Heading(i, sections[i].title) \o << sections[i].content, <<>> >>
         \o SectionLines(Heading, i + 1)

DocumentLines(Heading(_, _)) ==
    (IF article_title \in {NoneStr, <<>>} THEN <<>>
     ELSE << <<"#", " ">> \o article_title, <<>> >>)
    \o SectionLines(Heading, 1)

\* the heading of section i in the text and in the markdown rendering
TextHeading(i, title) == << <<"=", "=", "=", " ", "S", "e", "c", "t", "i", "o", "n", " ">> \o Decimal(i) \o <<":", " ">> \o title \o <<" ", "=", "=", "=">> >>

MarkdownHeading(i, title) == << <<"#", "#", " ">> \o title, <<>> >>

\* the text and the markdown rendering hold the same sections in the same
\* order with the same content strings, below headings of their own kind
SameDocument(text_value, markdown_value) ==
    /\ text_value = Join(DocumentLines(TextHeading), <<"\n">>)
    /\ markdown_value = Join(DocumentLines(MarkdownHeading), <<"\n">>)

\* C15: the text and the markdown rendering of a document contain the same
\* sections in the same order, each with the identical content string, and
\* differ only in the heading of the sections
C15_TextAndMarkdownAgree ==
    (pc = "formatted" /\ render_calls >= 2) =>
        /\ (prev_output.fmt = "text" /\ output.fmt = "markdown")
               => SameDocument(prev_output.value, output.value)
        /\ (prev_output.fmt = "markdown" /\ output.fmt = "text")
               => SameDocument(output.value, prev_output.value)

\* a document of two sections was rendered as text and then as markdown
C15_Witness ==
    /\ pc = "formatted"
    /\ Len(sections) = 2
    /\ prev_output.fmt = "text" /\ prev_output.exc = "None"
    /\ output.fmt = "markdown" /\ output.exc = "None"

\* ------------------------------------------------------------------------
\* Properties of the global toggle
\* ------------------------------------------------------------------------

\* C20: one run of the global-toggle strategy clicks a single control, at
\* most twice in total, and it reports success only after a click
C20_GlobalToggleAtMostTwoClicks ==
    (pc = "global" \/ (pc = "try_all" /\ Len(chain) = 2)) =>
        /\ Len(clicks) <= 2
        /\ \A i, j \in 1..Len(clicks) : clicks[i] = clicks[j]
        /\ (pc = "try_all" /\ chain[2].result) => clicks # <<>>

\* ------------------------------------------------------------------------
\* Properties of main and of the batch run
\* ------------------------------------------------------------------------

\* C16: when main terminates, on whatever path, cleanup has run and the
\* driver of the scraper is None
C16_SessionReleasedOnExit ==
    pc = "terminated" => (cleanup_ran /\ driver = "None")

\* a batch run was interrupted by the user while its session was live
C16_Witness ==
    /\ pc = "terminated"
    /\ entry = "urls_file"
    /\ session = "ok"
    /\ raised = "KeyboardInterrupt"
    /\ cleanup_ran

\* scrape_multiple_urls has returned `results` to main
BatchReturned == entry = "urls_file" /\ session # "unset" /\ pc = "summary"

\* C17: when the batch run returns, every input URL has an entry in the
\* results, the entry of every URL hit by a failed session setup or login
\* begins with "Error", and no URL was handed to scrape_url_batch more often
\* than it stands in the input
C17_EveryInputHasResult ==
    BatchReturned =>
        /\ \A i \in 1..Len(urls) : \E j \in 1..Len(results) : results[j].key = urls[i]
        /\ session \in {"setup_failed", "login_failed"} =>
               \A j \in 1..Len(results) : is_error(results[j].value)
        /\ k <= Len(urls) + 1

\* C18: the summary holds one status for every input URL, the status says
\* failed exactly when the result of the URL begins with "Error", and the
\* counts of the summary are the counters of scrape_multiple_urls
C18_SummaryMatchesCounters ==
    summary.written =>
        /\ \A i \in 1..Len(urls) :
              Cardinality({j \in 1..Len(summary.lines) : summary.lines[j].url = urls[i]}) = 1
        /\ \A j \in 1..Len(summary.lines) :
              \E n \in 1..Len(results) :
                 /\ results[n].key = summary.lines[j].url
                 /\ (summary.lines[j].status = "(U+2717)") = is_error(results[n].value)
        /\ summary.successful = successful
        /\ summary.failed = failed

\* the loop of scrape_multiple_urls has ended after a session was set up
LoopEnded == entry = "urls_file" /\ session = "ok" /\ pc = "summary"

\* C28: when the loop of scrape_multiple_urls ends, it has made one attempt
\* for every input URL, the two counters add up to the number of input
\* URLs, and every input URL has an entry in the results
C28_EveryUrlAttemptedAndCounted ==
    LoopEnded =>
        /\ k = Len(urls) + 1
        /\ successful + failed = Len(urls)
        /\ \A i \in 1..Len(urls) : \E j \in 1..Len(results) : results[j].key = urls[i]

C19_InterleavingKeepsResults ==
    \A c \in CallIds :
        \A alone \in {extract_sections(calls[c].soup)} :
            /\ calls[c].pc \in {"extracted", "returned"} =>
                   /\ calls[c].sections = alone.sections
                   /\ calls[c].article_title = alone.article_title
            /\ calls[c].pc = "returned" =>
                   calls[c].value
                       = format_output(alone.sections, calls[c].fmt, alone.article_title).value

\* two invocations on different pages have both returned, and each took
\* steps while the other was under way
C19_Witness ==
    /\ \A c \in CallIds : calls[c].pc = "returned" /\ calls[c].overlapped
    /\ calls[1].soup # calls[2].soup
    /\ calls[1].sections # <<>> /\ calls[2].sections # <<>>

\* ------------------------------------------------------------------------
\* Properties of the per-element and per-header strategies
\* ------------------------------------------------------------------------

\* the reveal method `method` has just returned to _try_all_toggle_methods
Returned(method) ==
    /\ pc = "try_all"
    /\ chain[Len(chain)].ev = "return"
    /\ chain[Len(chain)].method = method

\* number of clicks on element e in the click log
ClicksOn(e) == Cardinality({i \in 1..Len(clicks) : clicks[i] = e})

\* C21: when the aria-expanded strategy returns, no control reporting
\* "false" was clicked more than once, none reporting "true" more than
\* twice, none reporting anything else at all, and the strategy reports
\* success exactly when at least one control was clicked
C21_AriaSuccessIffActivated ==
    Returned("aria") =>
        /\ \A b \in 1..Len(buttons) :
              ClicksOn(b) <= (IF buttons[b] = "false" THEN 1
                              ELSE IF buttons[b] = "true" THEN 2 ELSE 0)
        /\ chain[Len(chain)].result = (clicks # <<>>)


\* number of occurrences of e in a click log
Count(log, e) == Cardinality({i \in 1..Len(log) : log[i] = e})

\* C22: one selector iteration of the header strategy clicks every matched
\* element that is displayed and whose click does not fail, exactly once,
\* and no other element; whatever the elements did, the next selector is
\* processed, and after the last one the strategy reports success exactly
\* when it clicked at least one element
C22_HeadersActivateDisplayed ==
    [][pc = "headers" =>
          /\ DOMAIN element_outcomes' \subseteq header_matches(k)
          /\ \A e \in 1..Cardinality(HeaderPool) :
                Count(clicks', e) - Count(clicks, e)
                   = (IF e \in DOMAIN element_outcomes'
                         /\ element_outcomes'[e] = "clicked" THEN 1 ELSE 0)
          /\ Len(clicks') >= Len(clicks)
          /\ IF k < NumHeaderSelectors
             THEN pc' = "headers" /\ k' = k + 1
             ELSE /\ pc' = "try_all"
                  /\ chain'[Len(chain')].method = "headers"
                  /\ chain'[Len(chain')].result = (clicks' # <<>>)]_vars

\* an element was clicked after an earlier element of the same selector
\* failed, and another selector is still to be processed
C22_Witness ==
    /\ pc = "headers" /\ k <= NumHeaderSelectors
    /\ \E e1, e2 \in DOMAIN element_outcomes :
          /\ e1 < e2
          /\ element_outcomes[e1] \in {"is_displayed_raises", "click_raises"}
          /\ element_outcomes[e2] = "clicked"
          /\ clicks[Len(clicks)] = e2

\* C30: when the header strategy returns, it has clicked no element of the
\* page more than once
C30_HeaderClickedAtMostOnce ==
    Returned("headers") =>
        \A e \in 1..Cardinality(HeaderPool) : ClicksOn(e) <= 1

\* C24: when the wait for one global-toggle selector times out, the next
\* selector is tried, and after the last selector the method returns False
\* from its return statement; when the global-toggle method has ended
\* without success the aria-expanded method starts, when that one has ended
\* without success too the header method starts, and the session is live
\* throughout
C24_TimeoutDoesNotEndTheChain ==
    [][/\ (pc = "global" /\ element_outcomes' = <<"TimeoutException">>) =>
             IF k < NumToggleSelectors
             THEN pc' = "global" /\ k' = k + 1 /\ chain' = chain
             ELSE /\ pc' = "try_all"
                  /\ chain'[Len(chain')]
                       = [ev |-> "return", method |-> "global", result |-> FALSE,
                          raised |-> FALSE]
       /\ (pc = "try_all" /\ ~chain[Len(chain)].result
              /\ chain[Len(chain)].method \in {"global", "aria"}) =>
             /\ pc' = (IF chain[Len(chain)].method = "global" THEN "aria"
                       ELSE "headers")
             /\ chain'[Len(chain')].ev = "start"
             /\ chain'[Len(chain')].method = pc'
             /\ driver' = "live"]_vars

\* the wait for the last global-toggle selector timed out after earlier
\* selectors were tried, and the method has returned False to the chain
C24_Witness ==
    /\ pc = "try_all" /\ driver = "live"
    /\ element_outcomes = <<"TimeoutException">>
    /\ chain[Len(chain)] = [ev |-> "return", method |-> "global", result |-> FALSE,
                            raised |-> FALSE]

\* the text has more than n characters between its first and its last
\* character that is no whitespace
LongerThan(text_content, n) ==
    \E i, j \in 1..Len(text_content) :
        /\ text_content[i] \notin WS /\ text_content[j] \notin WS
        /\ j - i + 1 > n

\* C23: _check_content_visibility returns True exactly when the queries
\* succeed and there is a content-shown marker or a readable section whose
\* trimmed text is longer than 50 characters; it returns False when a query
\* raises, and a section whose text cannot be read counts for nothing
C23_VisibleIffMarkerOrLongSection ==
    pc = "returned" =>
        visible = ( /\ ~page_view.query_error
                    /\ \/ page_view.shown_markers >= 1
                       \/ \E i \in 1..Len(page_view.section_texts) :
                             /\ page_view.section_texts[i] # Unreadable
                             /\ LongerThan(page_view.section_texts[i],
                                           VisibilityThreshold) )

\* an unreadable section was skipped and a later section made the content
\* count as visible
C23_Witness ==
    /\ pc = "returned" /\ visible = TRUE
    /\ page_view.shown_markers = 0
    /\ Len(page_view.section_texts) = 2
    /\ page_view.section_texts[1] = Unreadable

\* ------------------------------------------------------------------------
\* Properties of the content of a section
\* ------------------------------------------------------------------------

\* the children of the content node of the only section of the page
ContentKids == base_content(section_elements(soup)[1]).kids

\* the content of a section that holds the child alone
AloneContent(child) == extract_content_from_section(SectionOf(<<child>>, FALSE))

\* the contents of the children alone, in child order, without the empty ones
AloneContents(kids) ==
    SelectSeq([i \in 1..Len(kids) |-> AloneContent(kids[i])], LAMBDA c : c # <<>>)

\* the content extract_sections has kept for the only section of the page
KeptContent == IF sections = <<>> THEN <<>> ELSE sections[1].content

\* C25: the content of a section is what each direct child of its content
\* node yields on its own, once each and in child order, one entry per line;
\* a child that matches the paragraph-container rule and the box rule is
\* rendered by the paragraph-container rule alone
C25_BlocksInChildOrder ==
    pc = "extracted" =>
        /\ KeptContent = Join(AloneContents(ContentKids), <<"\n">>)
        /\ \A i \in 1..Len(ContentKids) :
              (HasClass(ContentKids[i], cls.paragraph)
                 /\ HasClass(ContentKids[i], cls.merke)) =>
                 AloneContent(ContentKids[i])
                    = <<"<p>">> \o cleaned(ContentKids[i]) \o <<"</p>">>

\* two children of a baseStyles wrapper have each yielded a block
C25_Witness ==
    /\ pc = "extracted" /\ sections # <<>>
    /\ base_styles(content_container(section_elements(soup)[1])) # NoNode
    /\ Len(ContentKids) = 2
    /\ ContentKids[1] # ContentKids[2]
    /\ \A i \in 1..2 : AloneContent(ContentKids[i]) # <<>>

\* the child is a tag that none of the specific rules of
\* extract_content_from_section matches
Unmatched(child) ==
    /\ IsTag(child)
    /\ child.name \notin {"h3", "ul", "p"}
    /\ ~(/\ child.name = "div"
          /\ \E c \in {cls.table_wrapper, cls.paragraph, cls.merke, cls.cave,
                        cls.content_box} : HasClass(child, c))

\* a list, a table or a container element lies somewhere below the child
HasNestedStructure(child) ==
    \E i \in 1..Len(Descendants(child)) :
        HasName(Descendants(child)[i], {"ul", "table", "div"})

\* C26: the only child of a content node, matched by none of the specific
\* rules, yields a paragraph of its cleaned text exactly when no list, table
\* or container element lies anywhere below it and the cleaned text is
\* longer than 20 characters; otherwise the section has no content
C26_GenericParagraphIffPlainAndLong ==
    (pc = "extracted" /\ Len(ContentKids) = 1 /\ Unmatched(ContentKids[1])) =>
        KeptContent
           = (IF ~HasNestedStructure(ContentKids[1])
                 /\ Len(cleaned(ContentKids[1])) > 20
              THEN <<"<p>">> \o cleaned(ContentKids[1]) \o <<"</p>">>
              ELSE <<>>)

\* ------------------------------------------------------------------------
\* Properties of clean_text
\* ------------------------------------------------------------------------

NoOuterWhitespace(s) == s = <<>> \/ (s[1] \notin WS /\ s[Len(s)] \notin WS)

NoWhitespaceRun(s) == \A i \in 1..(Len(s) - 1) : ~(s[i] \in WS /\ s[i + 1] \in WS)

\* no "[", digits, "]" anywhere in s
NoReferenceMarker(s) ==
    ~\E i, j \in 1..Len(s) :
        /\ j > i + 1 /\ s[i] = "[" /\ s[j] = "]"
        /\ \A d \in (i + 1)..(j - 1) : s[d] \in Digits

NoUnwantedString(s) ==
    \A u \in 1..Len(unwanted_strings) : ~Contains(s, unwanted_strings[u])

\* C27: the text clean_text returns has no whitespace at its ends, no two
\* whitespace characters in a row, no bracketed reference number and none
\* of the unwanted UI strings, and clean_text returns it unchanged
C27_CleanTextNormalizes ==
    pc = "returned" /\ cleaned_text # NoneStr =>
        /\ NoOuterWhitespace(cleaned_text)
        /\ NoWhitespaceRun(cleaned_text)
        /\ NoReferenceMarker(cleaned_text)
        /\ NoUnwantedString(cleaned_text)
        /\ clean_text(cleaned_text) = cleaned_text

====
